---- MODULE Spec2Model ----
(***************************************************************************)
(* PrismCat persistence pipeline.                                          *)
(*                                                                         *)
(* Part I   AsyncRepository (bounded queue, single worker, drain on Close) *)
(*          driven by request handlers that save an initial and then a     *)
(*          finalized record for their id.                                 *)
(* Part II  FileBlobStore.Put / GarbageCollect, DetachingRepository and    *)
(*          the retention loop that purges rows and collects blobs.        *)
(* Part III One FileBlobStore.GarbageCollect call on an arbitrary blob     *)
(*          directory with arbitrary referenced refs and minAge.           *)
(* Part IV  limitedCapture under arbitrary Write calls.                    *)
(* Part V   Proxy.ServeHTTP for one routed request: tee of the request     *)
(*          body, client.Do, copy of the response body, the two records.   *)
(* Part VI  FileBlobStore.Put step by step with concurrent callers, Get.   *)
(* Part VII truncateUTF8, in both forms the repository holds.              *)
(* Part VIII DetachingRepository.SaveLog for one record.                   *)
(* Part IX  SQLiteRepository.SaveLog: the upsert into request_logs.        *)
(* Part X   config.ExtractSubdomain on hosts spelled character by          *)
(*          character.                                                     *)
(* Part XI  Request headers of one request: sanitizeHeaders for the        *)
(*          records, copyHeaders for the upstream request.                 *)
(* Part XII copyWithOptionalFlush read by read, with the Flush calls.      *)
(* Part XIII The server's main handler: CORS, OPTIONS, UI host or proxy.   *)
(* Part XIV Configuration reads of one request under concurrent updates.   *)
(* Part XV  Shutdown: server, active handlers, main and the async Close.   *)
(* Part XVI Records and header maps as objects: the clone made by SaveLog. *)
(* Part XVII The entry of ServeHTTP: subdomain, upstream, target, record.  *)
(* Part XVIII The retention goroutine next to main's deferred calls.       *)
(* Part XIX  AsyncRepository.Close called by several goroutines.           *)
(* Part XX   Proxy.copyHeaders key by key, with the Connection tokens.     *)
(***************************************************************************)
EXTENDS Integers, Sequences, FiniteSets, TLC

(***************************************************************************)
(* Bounds of the model.                                                    *)
(***************************************************************************)
\* Number of concurrent request handlers (one request id each).
NumHandlers == 2
\* Capacity of the queue channel (the `buffer` given to NewAsyncRepository).
Capacity == 2
\* Number of log entries that pass through the detaching stage.
NumJobs == 2
\* Number of distinct large body contents (one blob digest each).
NumDigests == 2
\* Number of times the clock advances.
MaxTicks == 2
\* Number of files in the directory handed to a single GarbageCollect call.
MaxFiles == 2
\* Largest capture cap (loggingCfg.MaxRequestBody / MaxResponseBody), in bytes.
MaxCap == 2
\* Largest number of bytes one Read or Write call carries.
MaxChunk == 2
\* Number of Write calls made on one limitedCapture.
MaxWrites == 3
\* Largest request or response body of a proxied request, in bytes.
MaxBody == 3
\* Number of Put calls made on the store.
MaxPuts == 3
\* Largest number of runes of a string handed to truncateUTF8.
MaxRunes == 4
\* Largest number of runes of a body handed to DetachingRepository.SaveLog.
MaxBodyRunes == 2
\* Largest detach threshold and preview cap, in bytes.
MaxThreshold == 3
\* Number of SQLiteRepository.SaveLog calls.
MaxSaves == 3
\* Largest number of characters of a Host value.
MaxHostLen == 5
\* Largest number of bytes of a header value.
MaxValueLen == 12
\* Number of Read calls on the upstream body before it ends.
MaxReads == 3
\* Number of configuration updates made through the admin API.
MaxUpdates == 2
\* The shutdown timeout, in clock ticks.
GraceTicks == 2
\* Number of SaveLog calls made with the caller's record.
MaxEnqueues == 2
\* Largest host of a request at the entry of ServeHTTP, in characters.
MaxResolveHostLen == 3
\* Number of ticks the retention loop's ticker sends.
MaxStopTicks == 2
\* Number of goroutines that call AsyncRepository.Close.
NumClosers == 2
\* Number of producers calling SaveLog next to them.
NumProducers == 2
\* Largest number of headers of the source message, Connection aside.
MaxHeaders == 2

(***************************************************************************)
(* Part I: state of the async stage.                                       *)
(*                                                                         *)
(* a.inflightMu guards a.inflight and the Store to a.closed; no goroutine  *)
(* blocks while holding it (Cond.Wait releases it), so each critical       *)
(* section is one action and the mutex itself needs no variable.           *)
(***************************************************************************)
VARIABLES
    ch,             \* a.ch: the buffered channel, as the sequence of queued records
    chClosed,       \* close(a.ch) has been executed
    closed,         \* a.closed (atomic.Bool)
    inflight,       \* a.inflight
    dropped,        \* a.dropped
    hpc,            \* position of each handler inside SaveLog
    phase,          \* which record the handler is saving: initial, final, done
    result,         \* value each SaveLog call returns ("none": not decided yet)
    wpc,            \* position of the worker goroutine
    entry,          \* the record the worker took from the channel
    cpc,            \* position of the goroutine that calls Close
    innerCalls,     \* per record: number of inner.SaveLog calls made with it
    innerClosed,    \* inner.Close has been called
    rows,           \* durable table: id -> kind of the record its row holds
    panicked,       \* a send was attempted on the closed channel
    startedClosed,  \* per call: the closed flag was already set when it started
    chLenAtClose,   \* queue occupancy when Close was invoked (-1: not invoked)
    saveAfterClose  \* inner.SaveLog was called after inner.Close

asyncVars == <<ch, chClosed, closed, inflight, dropped, hpc, phase, result, wpc,
               entry, cpc, innerCalls, innerClosed, rows, panicked,
               startedClosed, chLenAtClose, saveAfterClose>>

\* State of Part II (blob store, detaching stage, retention loop).
VARIABLES
    now,            \* time.Now(), in hours since start
    ticks,          \* number of clock advances so far
    retentionDays,  \* cfg.Storage.RetentionDays
    blobs,          \* blob directory: digest -> mtime of <dir>/<hh>/<hex>, or NoFile
    logRows,        \* request_logs: id -> row, or NoRow
    jobDone,        \* entries already taken by the worker
    dpc,            \* position of DetachingRepository.SaveLog
    dfacet,         \* the body facet being detached: req, resp
    dentry,         \* the entry being saved
    rpc,            \* position of the retention loop
    lastCleanup,    \* lastCleanup (ZeroTime: never)
    lastBlobGC,     \* lastBlobGC (ZeroTime: never)
    gcRefs,         \* the refs ListBlobRefs returned to this GC pass
    gcCutoff,       \* cutoff of the running GarbageCollect
    gcTodo,         \* files the walk has still to visit
    gcDeletedLive,  \* the GC removed an object that a row referenced at that moment
    savedDangling   \* a row was saved with a ref whose object did not exist

gcVars == <<now, ticks, retentionDays, blobs, logRows, jobDone, dpc, dfacet, dentry, rpc,
            lastCleanup, lastBlobGC, gcRefs, gcCutoff, gcTodo, gcDeletedLive,
            savedDangling>>

\* State of Part III (one GarbageCollect call).
VARIABLES
    dir,            \* the blob directory: file name -> mtime, or NoFile
    dirBefore,      \* the directory as it was when the call started
    liveRefs,       \* referencedRefs
    minAge,         \* minAge, in hours
    removed,        \* names of the files on which os.Remove succeeded
    deleted,        \* the count the call returned
    gpc             \* position of the caller: ready, done

callVars == <<dir, dirBefore, liveRefs, minAge, removed, deleted, gpc>>

\* State of Part IV (one limitedCapture).
VARIABLES
    capture,        \* the limitedCapture: max, buf, total, truncated
    capWritten,     \* every byte handed to Write so far, in order
    capCalls        \* number of Write calls so far

captureVars == <<capture, capWritten, capCalls>>

\* State of Part V (one ServeHTTP call, from the initial record on).
VARIABLES
    script,         \* what the environment does to this request (see Scripts)
    spc,            \* position of the handler
    reqLeft,        \* bytes of r.Body not read yet
    upSent,         \* bytes the transport has sent upstream
    respLeft,       \* bytes of resp.Body not read yet
    clientStatus,   \* status code written to the client (0: none yet)
    clientBody,     \* body bytes written to the client
    flushed,        \* number of body bytes flushed to the client
    reqCapture,     \* reqCapture
    respCapture,    \* respCapture
    logEntry,       \* logEntry
    saved           \* the SaveLog calls made: <<record, result>> each

serveVars == <<script, spc, reqLeft, upSent, respLeft, clientStatus, clientBody, flushed,
               reqCapture, respCapture, logEntry, saved>>

\* State of Part VI (the blob store under Put and Get).
VARIABLES
    files,          \* final paths: path -> stored content, or NoFile
    tmp,            \* temporary paths: path -> content, or NoFile
    ppc,            \* per caller: position inside Put
    pdata,          \* per caller: the data handed to Put
    ptmp,           \* per caller: tmpPath of its call
    pfd,            \* per caller: where the file it has open for writing is now
    pfault,         \* per caller: an OS call of its call failed for a reason of its own
    pres,           \* per caller: what its last Put call returned
    putLog,         \* the Put calls that returned nil: <<data, ref>>
    putCalls,       \* number of Put calls so far
    lastGet         \* the last Get call: <<ref, error, content>>

putVars == <<files, tmp, ppc, pdata, ptmp, pfd, pfault, pres, putLog, putCalls, lastGet>>

\* State of Part VII (one truncateUTF8 call).
VARIABLES
    ts,             \* the argument s, a sequence of bytes
    tmaxBytes,      \* the argument maxBytes
    tform,          \* "none" before the call, then the form that was called
    tresult         \* the string returned

truncVars == <<ts, tmaxBytes, tform, tresult>>

\* State of Part VIII (one DetachingRepository.SaveLog call).
VARIABLES
    drcfg,           \* LoggingSnapshot: detachOver, previewBytes
    drform,          \* the form of truncateUTF8 the build holds
    drinput,         \* the record as SaveLog received it
    drentry,         \* *logEntry, changed in place
    drpc,            \* position inside SaveLog
    drputs,          \* the blobs.Put calls so far: <<facet, data, err, ref>>
    drinner,         \* the records handed to inner.SaveLog so far
    drreturn         \* what SaveLog returned

detachVars == <<drcfg, drform, drinput, drentry, drpc, drputs, drinner, drreturn>>

\* State of Part IX (the table request_logs under SaveLog).
VARIABLES
    table,          \* request_logs: the rows, in rowid order
    sqlSaves,       \* the SaveLog calls so far: <<record after SaveLog, error>>
    uuids           \* number of ids uuid.New() has produced

sqlVars == <<table, sqlSaves, uuids>>

\* State of Part X (one ExtractSubdomain call).
VARIABLES
    xhost,          \* the argument host (r.Host)
    xdomains,       \* the argument proxyDomains
    xpc,            \* "call" before the call, "done" after it
    xsub            \* the string returned

hostVars == <<xhost, xdomains, xpc, xsub>>

\* State of Part XI (the request headers of one request).
VARIABLES
    mheader,        \* r.Header: the header under study, its values, Connection tokens
    msensitive,     \* loggingCfg.SensitiveHeaders
    mpc,            \* position in ServeHTTP
    mlogged,        \* logEntry.RequestHeaders
    mrecords,       \* RequestHeaders of the records handed to SaveLog so far
    mupstream       \* upstreamReq.Header

maskVars == <<mheader, msensitive, mpc, mlogged, mrecords, mupstream>>

\* State of Part XII (one copyWithOptionalFlush call and the record after it).
VARIABLES
    fflush,         \* the argument flush (logEntry.Streaming)
    fisFlusher,     \* dst.(http.Flusher) succeeds
    freads,         \* what the Read calls on src return, in order: <<n, err>>
    fwriteFail,     \* the Write call on dst that fails (0: none) 
    fpc,            \* position: read, write, final, done
    fpos,           \* number of Read calls made
    fwrites,        \* number of Write calls made
    ftrace,         \* the calls made so far on src and dst
    ftotal,         \* total
    frecord         \* logEntry: streaming, respSize, error; saved

streamVars == <<fflush, fisFlusher, freads, fwriteFail, fpc, fpos, fwrites, ftrace, ftotal, frecord>>

\* State of Part XIII (one request through mainHandler).
VARIABLES
    rmethod,        \* r.Method
    rhost,          \* r.Host
    rorigin,        \* the request's Origin header ("" when absent)
    ruiHosts,       \* cfg.Server.UIHosts
    rcors,          \* serverCfg.CORSAllowOrigins
    rtpc,            \* position: cors, method, route, done
    rallow,         \* Access-Control-Allow-Origin set on the response ("" when not set)
    rhandler,       \* the handler that served the request
    rstatus         \* status written by mainHandler itself (0: none)

routeVars == <<rmethod, rhost, rorigin, ruiHosts, rcors, rtpc, rallow, rhandler, rstatus>>

\* State of Part XIV (the shared Config, one request and its records).
VARIABLES
    kcfg,           \* Config: the version of each section's values
    kupdates,       \* number of updates applied so far
    kpc,            \* position of the handler: server, logging, upstream, initial, final, done
    kentry,         \* the Config as it was when the handler was entered
    kused,          \* per setting: the version of the value applied to the request
    kqueue          \* records of the request waiting in the async stage

configVars == <<kcfg, kupdates, kpc, kentry, kused, kqueue>>

\* State of Part XV (shutdown of the process).
VARIABLES
    zbuild,         \* which main is built: with the tray, or without
    zreq,           \* per request: idle, active, saved (finalized record issued), returned
    zactive,        \* activeRequests
    zserver,        \* Server.Start: serving, shutdown, waiting, returned
    zelapsed,       \* clock ticks since Start received the signal
    zdeadline,      \* deadline of the wait for the handlers, in ticks
    zmain,          \* main: running, closing (the deferred asyncRepo.Close has started)
    zclosed,        \* a.closed of the async stage
    zresult,        \* per request: what the SaveLog of its finalized record returned
    zsavedAt        \* per request: the tick at which that SaveLog was issued

shutdownVars == <<zbuild, zreq, zactive, zserver, zelapsed, zdeadline, zmain, zclosed,
                  zresult, zsavedAt>>

\* State of Part XVI (the caller's record, its clones, their header maps).
VARIABLES
    qstructs,       \* RequestLog objects: address -> struct, or NoStruct
    qmaps,          \* header maps: address -> entries, or NoMap
    qchan,          \* a.ch: the addresses of the queued records
    qcalls,         \* number of SaveLog calls made so far
    qsnaps,         \* per accepted SaveLog call: the caller's record as it was then
    qentry,         \* the record the worker holds: <<address, number of its call>>
    qwpc,           \* position of the worker: recv, deliver, inner
    qsent,          \* number of records received by the worker so far
    qdeliv          \* what inner.SaveLog was called with: <<record, number of its call>>

cloneVars == <<qstructs, qmaps, qchan, qcalls, qsnaps, qentry, qwpc, qsent, qdeliv>>

\* State of Part XVII (the entry of one ServeHTTP call, up to the initial record).
VARIABLES
    vhost,          \* r.Host
    vups,           \* c.Upstreams: name -> target, or NoTarget
    vpc,            \* extract, lookup, parse, initial, forward, sent, done
    vsub,           \* subdomain
    vtarget,        \* upstream.Target
    vstatus,        \* the status written to the client here, 0 for none
    vbody,          \* the text http.Error wrote
    vsaved,         \* the records handed to p.repo.SaveLog
    vtag,           \* r.Header.Get("X-PrismCat-Tag"), "" if absent
    vupTag,         \* the X-PrismCat-Tag header of the upstream request
    vrows           \* what GetLog returns for the request's id, <<>> if no row

resolveVars == <<vhost, vups, vpc, vsub, vtarget, vstatus, vbody, vsaved, vtag, vupTag,
                 vrows>>

\* State of Part XVIII (the retention goroutine and main's deferred calls).
VARIABLES
    ypc,            \* retention goroutine: top, purge, list, gc, select, exited
    ymain,          \* main: running, stopped, closed, exit
    ystop,          \* stopRetention has been closed
    ytick,          \* ticker.C holds a tick
    yticks,         \* number of ticks the ticker has sent
    ydb,            \* the durable table: open, closed
    yrefused,       \* the query in progress was started on the closed table
    yretention,     \* retentionDays > 0
    ypurgeDue,      \* lastCleanup.IsZero() || time.Since(lastCleanup) >= 6h
    ygcDue          \* lastBlobGC.IsZero() || time.Since(lastBlobGC) >= 24h

stopVars == <<ypc, ymain, ystop, ytick, yticks, ydb, yrefused, yretention, ypurgeDue, ygcDue>>

\* State of Part XIX (several goroutines calling AsyncRepository.Close).
VARIABLES
    opc,            \* per Close call: idle, once, cond, wgwait, innerclose, returned
    oonce,          \* a.closeOnce: new, running, done
    oclosed,        \* a.closed
    oinflight,      \* a.inflight
    oprod,          \* per producer: ready, send, done
    oqueue,         \* number of records in a.ch
    ochCloses,      \* number of close(a.ch) executed
    oworker,        \* the worker: running, done
    oinnerCloses    \* number of a.inner.Close() calls

closersVars == <<opc, oonce, oclosed, oinflight, oprod, oqueue, ochCloses, oworker,
                 oinnerCloses>>

\* State of Part XX (one copyHeaders call).
VARIABLES
    gsrc,           \* src without its Connection header: name -> values
    gconn,          \* src.Values("Connection"): per value its comma-separated parts
    gdst,           \* dst: name -> values
    gdst0,          \* dst as it was when copyHeaders was called
    gtodo,          \* keys of src the range loop has still to visit
    hdpc             \* call, loop, done

hdrVars == <<gsrc, gconn, gdst, gdst0, gtodo, hdpc>>

\* The variables of the parts after Part III, and for each of those parts the
\* variables of all the others.
laterVars ==
    <<captureVars, serveVars, putVars, truncVars, detachVars, sqlVars, hostVars,
    maskVars, streamVars, routeVars, configVars, shutdownVars, cloneVars, resolveVars,
    stopVars, closersVars, hdrVars>>
notCaptureVars ==
    <<asyncVars, gcVars, callVars, serveVars, putVars, truncVars, detachVars, sqlVars,
    hostVars, maskVars, streamVars, routeVars, configVars, shutdownVars, cloneVars,
    resolveVars, stopVars, closersVars, hdrVars>>
notServeVars ==
    <<asyncVars, gcVars, callVars, captureVars, putVars, truncVars, detachVars,
    sqlVars, hostVars, maskVars, streamVars, routeVars, configVars, shutdownVars,
    cloneVars, resolveVars, stopVars, closersVars, hdrVars>>
notPutVars ==
    <<asyncVars, gcVars, callVars, captureVars, serveVars, truncVars, detachVars,
    sqlVars, hostVars, maskVars, streamVars, routeVars, configVars, shutdownVars,
    cloneVars, resolveVars, stopVars, closersVars, hdrVars>>
notTruncVars ==
    <<asyncVars, gcVars, callVars, captureVars, serveVars, putVars, detachVars,
    sqlVars, hostVars, maskVars, streamVars, routeVars, configVars, shutdownVars,
    cloneVars, resolveVars, stopVars, closersVars, hdrVars>>
notDetachVars ==
    <<asyncVars, gcVars, callVars, captureVars, serveVars, putVars, truncVars, sqlVars,
    hostVars, maskVars, streamVars, routeVars, configVars, shutdownVars, cloneVars,
    resolveVars, stopVars, closersVars, hdrVars>>
notSqlVars ==
    <<asyncVars, gcVars, callVars, captureVars, serveVars, putVars, truncVars,
    detachVars, hostVars, maskVars, streamVars, routeVars, configVars, shutdownVars,
    cloneVars, resolveVars, stopVars, closersVars, hdrVars>>
notHostVars ==
    <<asyncVars, gcVars, callVars, captureVars, serveVars, putVars, truncVars,
    detachVars, sqlVars, maskVars, streamVars, routeVars, configVars, shutdownVars,
    cloneVars, resolveVars, stopVars, closersVars, hdrVars>>
notMaskVars ==
    <<asyncVars, gcVars, callVars, captureVars, serveVars, putVars, truncVars,
    detachVars, sqlVars, hostVars, streamVars, routeVars, configVars, shutdownVars,
    cloneVars, resolveVars, stopVars, closersVars, hdrVars>>
notStreamVars ==
    <<asyncVars, gcVars, callVars, captureVars, serveVars, putVars, truncVars,
    detachVars, sqlVars, hostVars, maskVars, routeVars, configVars, shutdownVars,
    cloneVars, resolveVars, stopVars, closersVars, hdrVars>>
notRouteVars ==
    <<asyncVars, gcVars, callVars, captureVars, serveVars, putVars, truncVars,
    detachVars, sqlVars, hostVars, maskVars, streamVars, configVars, shutdownVars,
    cloneVars, resolveVars, stopVars, closersVars, hdrVars>>
notConfigVars ==
    <<asyncVars, gcVars, callVars, captureVars, serveVars, putVars, truncVars,
    detachVars, sqlVars, hostVars, maskVars, streamVars, routeVars, shutdownVars,
    cloneVars, resolveVars, stopVars, closersVars, hdrVars>>
notShutdownVars ==
    <<asyncVars, gcVars, callVars, captureVars, serveVars, putVars, truncVars,
    detachVars, sqlVars, hostVars, maskVars, streamVars, routeVars, configVars,
    cloneVars, resolveVars, stopVars, closersVars, hdrVars>>
notCloneVars ==
    <<asyncVars, gcVars, callVars, captureVars, serveVars, putVars, truncVars,
    detachVars, sqlVars, hostVars, maskVars, streamVars, routeVars, configVars,
    shutdownVars, resolveVars, stopVars, closersVars, hdrVars>>
notResolveVars ==
    <<asyncVars, gcVars, callVars, captureVars, serveVars, putVars, truncVars,
    detachVars, sqlVars, hostVars, maskVars, streamVars, routeVars, configVars,
    shutdownVars, cloneVars, stopVars, closersVars, hdrVars>>
notStopVars ==
    <<asyncVars, gcVars, callVars, captureVars, serveVars, putVars, truncVars,
    detachVars, sqlVars, hostVars, maskVars, streamVars, routeVars, configVars,
    shutdownVars, cloneVars, resolveVars, closersVars, hdrVars>>
notClosersVars ==
    <<asyncVars, gcVars, callVars, captureVars, serveVars, putVars, truncVars,
    detachVars, sqlVars, hostVars, maskVars, streamVars, routeVars, configVars,
    shutdownVars, cloneVars, resolveVars, stopVars, hdrVars>>
notHdrVars ==
    <<asyncVars, gcVars, callVars, captureVars, serveVars, putVars, truncVars,
    detachVars, sqlVars, hostVars, maskVars, streamVars, routeVars, configVars,
    shutdownVars, cloneVars, resolveVars, stopVars, closersVars>>

Handlers == 1 .. NumHandlers
\* ServeHTTP saves two records per request: the initial and the finalized one.
Kinds == {"initial", "final"}
Records == Handlers \X Kinds
NoEntry == <<0, "none">>

\* The record a handler is currently saving.
Rec(h) == <<h, phase[h]>>

AsyncInit ==
    /\ ch = <<>>
    /\ chClosed = FALSE
    /\ closed = FALSE
    /\ inflight = 0
    /\ dropped = 0
    /\ hpc = [h \in Handlers |-> "ready"]
    /\ phase = [h \in Handlers |-> "initial"]
    /\ result = [r \in Records |-> "none"]
    /\ wpc = "recv"
    /\ entry = NoEntry
    /\ cpc = "idle"
    /\ innerCalls = [r \in Records |-> 0]
    /\ innerClosed = FALSE
    /\ rows = [h \in Handlers |-> "none"]
    /\ panicked = FALSE
    /\ startedClosed = [r \in Records |-> FALSE]
    /\ chLenAtClose = -1
    /\ saveAfterClose = FALSE

(***************************************************************************)
(* AsyncRepository.SaveLog, one action per step of the call.               *)
(***************************************************************************)
\* a.closed.Load()
ClosedLoadNever == FALSE
ClosedLoad == closed

\* SaveLog returns `res`: the handler moves on to its next record.
Return(h, res) ==
    /\ result' = [result EXCEPT ![Rec(h)] = res]
    /\ hpc' = [hpc EXCEPT ![h] = "ready"]
    /\ phase' = [phase EXCEPT ![h] = IF phase[h] = "initial" THEN "final" ELSE "done"]

\* The handler calls repo.SaveLog(entry) (saveLogSnapshot):
\* if a.closed.Load() { return ErrAsyncClosed }
SaveLogBegin(h) ==
    /\ hpc[h] = "ready"
    /\ phase[h] /= "done"
    /\ startedClosed' = [startedClosed EXCEPT ![Rec(h)] = closed]
    /\ IF ClosedLoad
          THEN Return(h, "ErrAsyncClosed")
          ELSE /\ hpc' = [hpc EXCEPT ![h] = "lock"]
               /\ UNCHANGED <<phase, result>>
    /\ UNCHANGED <<ch, chClosed, closed, inflight, dropped, wpc, entry, cpc,
                   innerCalls, innerClosed, rows, panicked, chLenAtClose,
                   saveAfterClose>>
    /\ UNCHANGED gcVars
    /\ UNCHANGED callVars
    /\ UNCHANGED laterVars

\* Lock; if a.closed.Load() { Unlock; return ErrAsyncClosed }; a.inflight++; Unlock
SaveLogEnter(h) ==
    /\ hpc[h] = "lock"
    /\ IF ClosedLoad
          THEN /\ Return(h, "ErrAsyncClosed")
               /\ UNCHANGED inflight
          ELSE /\ inflight' = inflight + 1
               /\ hpc' = [hpc EXCEPT ![h] = "send"]
               /\ UNCHANGED <<phase, result>>
    /\ UNCHANGED <<ch, chClosed, closed, dropped, wpc, entry, cpc, innerCalls,
                   innerClosed, rows, panicked, startedClosed, chLenAtClose,
                   saveAfterClose>>
    /\ UNCHANGED gcVars
    /\ UNCHANGED callVars
    /\ UNCHANGED laterVars

\* select { case a.ch <- c: return nil; default: a.dropped.Add(1); return ErrAsyncQueueFull }
\* A send on a closed channel panics, also inside a select with a default.
\* The return value is fixed here; the deferred function runs before the return.
SaveLogSendNoCount(h) ==
    /\ hpc[h] = "send"
    /\ IF chClosed
          THEN /\ panicked' = TRUE
               /\ hpc' = [hpc EXCEPT ![h] = "panic"]
               /\ UNCHANGED <<ch, dropped, result>>
          ELSE /\ IF Len(ch) < Capacity
                     THEN /\ ch' = Append(ch, Rec(h))
                          /\ result' = [result EXCEPT ![Rec(h)] = "nil"]
                     ELSE /\ result' = [result EXCEPT ![Rec(h)] = "ErrAsyncQueueFull"]
                          /\ UNCHANGED ch
               /\ UNCHANGED dropped
               /\ hpc' = [hpc EXCEPT ![h] = "defer"]
               /\ UNCHANGED panicked
    /\ UNCHANGED <<chClosed, closed, inflight, phase, wpc, entry, cpc, innerCalls,
                   innerClosed, rows, startedClosed, chLenAtClose, saveAfterClose>>
    /\ UNCHANGED gcVars
    /\ UNCHANGED callVars
    /\ UNCHANGED laterVars

\* The same send without the default case: it blocks while the queue is full.
SaveLogSendBlocking(h) ==
    /\ hpc[h] = "send"
    /\ chClosed \/ Len(ch) < Capacity
    /\ SaveLogSendNoCount(h)

\* The same send returning nil for a record it dropped.
SaveLogSendNilWhenFull(h) ==
    /\ hpc[h] = "send"
    /\ IF chClosed
          THEN /\ panicked' = TRUE
               /\ hpc' = [hpc EXCEPT ![h] = "panic"]
               /\ UNCHANGED <<ch, dropped, result>>
          ELSE /\ IF Len(ch) < Capacity
                     THEN /\ ch' = Append(ch, Rec(h))
                          /\ result' = [result EXCEPT ![Rec(h)] = "nil"]
                          /\ UNCHANGED dropped
                     ELSE /\ dropped' = dropped + 1
                          /\ result' = [result EXCEPT ![Rec(h)] = "nil"]
                          /\ UNCHANGED ch
               /\ hpc' = [hpc EXCEPT ![h] = "defer"]
               /\ UNCHANGED panicked
    /\ UNCHANGED <<chClosed, closed, inflight, phase, wpc, entry, cpc, innerCalls,
                   innerClosed, rows, startedClosed, chLenAtClose, saveAfterClose>>
    /\ UNCHANGED gcVars
    /\ UNCHANGED callVars
    /\ UNCHANGED laterVars

SaveLogSend(h) ==
    /\ hpc[h] = "send"
    /\ IF chClosed
          THEN /\ panicked' = TRUE
               /\ hpc' = [hpc EXCEPT ![h] = "panic"]
               /\ UNCHANGED <<ch, dropped, result>>
          ELSE /\ IF Len(ch) < Capacity
                     THEN /\ ch' = Append(ch, Rec(h))
                          /\ result' = [result EXCEPT ![Rec(h)] = "nil"]
                          /\ UNCHANGED dropped
                     ELSE /\ dropped' = dropped + 1
                          /\ result' = [result EXCEPT ![Rec(h)] = "ErrAsyncQueueFull"]
                          /\ UNCHANGED ch
               /\ hpc' = [hpc EXCEPT ![h] = "defer"]
               /\ UNCHANGED panicked
    /\ UNCHANGED <<chClosed, closed, inflight, phase, wpc, entry, cpc, innerCalls,
                   innerClosed, rows, startedClosed, chLenAtClose, saveAfterClose>>
    /\ UNCHANGED gcVars
    /\ UNCHANGED callVars
    /\ UNCHANGED laterVars

\* The same deferred function without the Broadcast.
SaveLogDeferNoBroadcast(h) ==
    /\ hpc[h] = "defer"
    /\ inflight' = inflight - 1
    /\ Return(h, result[Rec(h)])
    /\ UNCHANGED <<ch, chClosed, closed, dropped, wpc, entry, cpc, innerCalls,
                   innerClosed, rows, panicked, startedClosed, chLenAtClose,
                   saveAfterClose>>
    /\ UNCHANGED gcVars
    /\ UNCHANGED callVars
    /\ UNCHANGED laterVars

\* deferred: Lock; a.inflight--; Broadcast when it reaches 0; Unlock; SaveLog returns.
\* Broadcast wakes the Close goroutine if it is blocked in inflightCond.Wait().
SaveLogDefer(h) ==
    /\ hpc[h] = "defer"
    /\ inflight' = inflight - 1
    /\ cpc' = IF inflight' = 0 /\ cpc = "waiting" THEN "woken" ELSE cpc
    /\ Return(h, result[Rec(h)])
    /\ UNCHANGED <<ch, chClosed, closed, dropped, wpc, entry, innerCalls,
                   innerClosed, rows, panicked, startedClosed, chLenAtClose,
                   saveAfterClose>>
    /\ UNCHANGED gcVars
    /\ UNCHANGED callVars
    /\ UNCHANGED laterVars

(***************************************************************************)
(* The worker goroutine started by NewAsyncRepository.                     *)
(***************************************************************************)
\* The element a receive takes from the channel: channels are FIFO.
RecvIndexLast(q) == Len(q)
RecvIndex(q) == 1

RemoveAtLast(q, i) == SubSeq(q, 1, Len(q) - 1)
RemoveAt(q, i) == [j \in 1 .. (Len(q) - 1) |-> IF j < i THEN q[j] ELSE q[j + 1]]

\* for entry := range a.ch: receive the next record, or leave the loop
\* (wg.Done) once the channel is closed and empty.
WorkerRecvNoDrain ==
    /\ wpc = "recv"
    /\ IF Len(ch) > 0 /\ ~chClosed
          THEN /\ entry' = ch[RecvIndex(ch)]
               /\ ch' = RemoveAt(ch, RecvIndex(ch))
               /\ wpc' = "save"
          ELSE /\ chClosed
               /\ wpc' = "done"
               /\ UNCHANGED <<entry, ch>>
    /\ UNCHANGED <<chClosed, closed, inflight, dropped, hpc, phase, result, cpc,
                   innerCalls, innerClosed, rows, panicked, startedClosed,
                   chLenAtClose, saveAfterClose>>
    /\ UNCHANGED gcVars
    /\ UNCHANGED callVars
    /\ UNCHANGED laterVars

WorkerRecv ==
    /\ wpc = "recv"
    /\ IF Len(ch) > 0
          THEN /\ entry' = ch[RecvIndex(ch)]
               /\ ch' = RemoveAt(ch, RecvIndex(ch))
               /\ wpc' = "save"
          ELSE /\ chClosed
               /\ wpc' = "done"
               /\ UNCHANGED <<entry, ch>>
    /\ UNCHANGED <<chClosed, closed, inflight, dropped, hpc, phase, result, cpc,
                   innerCalls, innerClosed, rows, panicked, startedClosed,
                   chLenAtClose, saveAfterClose>>
    /\ UNCHANGED gcVars
    /\ UNCHANGED callVars
    /\ UNCHANGED laterVars

\* SQLiteRepository.SaveLog: insert, or on conflict of the id replace every
\* column by the new record's. `ok` is whether the statement succeeded.
Upsert(t, e, ok) == IF ok THEN [t EXCEPT ![e[1]] = e[2]] ELSE t

\* a.inner.SaveLog(entry); an error is only logged.
WorkerSave ==
    /\ wpc = "save"
    /\ innerCalls' = [innerCalls EXCEPT ![entry] = @ + 1]
    /\ saveAfterClose' = (saveAfterClose \/ innerClosed)
    /\ \E ok \in BOOLEAN : rows' = Upsert(rows, entry, ok /\ ~innerClosed)
    /\ entry' = NoEntry
    /\ wpc' = "recv"
    /\ UNCHANGED <<ch, chClosed, closed, inflight, dropped, hpc, phase, result,
                   cpc, innerClosed, panicked, startedClosed, chLenAtClose>>
    /\ UNCHANGED gcVars
    /\ UNCHANGED callVars
    /\ UNCHANGED laterVars

(***************************************************************************)
(* AsyncRepository.Close.                                                  *)
(***************************************************************************)
\* for a.inflight > 0 { a.inflightCond.Wait() }; close(a.ch); Unlock.
\* Wait unlocks the mutex and suspends until a Broadcast.
CloseCheckNoWait ==
    /\ chClosed' = TRUE
    /\ cpc' = "wgwait"

CloseCheck ==
    IF inflight > 0
       THEN /\ cpc' = "waiting"
            /\ UNCHANGED chClosed
       ELSE /\ chClosed' = TRUE
            /\ cpc' = "wgwait"

\* Close() is invoked; closeOnce.Do runs the function:
\* Lock; a.closed.Store(true); then the wait loop.
CloseBegin ==
    /\ cpc = "idle"
    /\ chLenAtClose' = Len(ch)
    /\ closed' = TRUE
    /\ CloseCheck
    /\ UNCHANGED <<ch, inflight, dropped, hpc, phase, result, wpc, entry,
                   innerCalls, innerClosed, rows, panicked, startedClosed,
                   saveAfterClose>>
    /\ UNCHANGED gcVars
    /\ UNCHANGED callVars
    /\ UNCHANGED laterVars

\* Wait returns: it re-locks the mutex and the loop condition is re-read.
CloseWake ==
    /\ cpc = "woken"
    /\ CloseCheck
    /\ UNCHANGED <<ch, closed, inflight, dropped, hpc, phase, result, wpc, entry,
                   innerCalls, innerClosed, rows, panicked, startedClosed,
                   chLenAtClose, saveAfterClose>>
    /\ UNCHANGED gcVars
    /\ UNCHANGED callVars
    /\ UNCHANGED laterVars

\* a.wg.Wait(): blocks until the worker has returned.
WorkerReturnedAlways == TRUE
WorkerReturned == wpc = "done"

CloseWgWait ==
    /\ cpc = "wgwait"
    /\ WorkerReturned
    /\ cpc' = "innerclose"
    /\ UNCHANGED <<ch, chClosed, closed, inflight, dropped, hpc, phase, result, wpc,
                   entry, innerCalls, innerClosed, rows, panicked, startedClosed,
                   chLenAtClose, saveAfterClose>>
    /\ UNCHANGED gcVars
    /\ UNCHANGED callVars
    /\ UNCHANGED laterVars

\* return a.inner.Close()
CloseInner ==
    /\ cpc = "innerclose"
    /\ innerClosed' = TRUE
    /\ cpc' = "returned"
    /\ UNCHANGED <<ch, chClosed, closed, inflight, dropped, hpc, phase, result, wpc,
                   entry, innerCalls, rows, panicked, startedClosed, chLenAtClose,
                   saveAfterClose>>
    /\ UNCHANGED gcVars
    /\ UNCHANGED callVars
    /\ UNCHANGED laterVars

HandlerStep(h) ==
    \/ SaveLogBegin(h)
    \/ SaveLogEnter(h)
    \/ SaveLogSend(h)
    \/ SaveLogDefer(h)

WorkerStep == WorkerRecv \/ WorkerSave

CloseStep == CloseBegin \/ CloseWake \/ CloseWgWait \/ CloseInner

AsyncNext ==
    \/ \E h \in Handlers : HandlerStep(h)
    \/ WorkerStep
    \/ CloseStep

(***************************************************************************)
(* Part II: blob store, detaching stage, durable table, retention loop.    *)
(*                                                                         *)
(* Time is counted in hours.  A body is 0 (absent, or not longer than the  *)
(* detach threshold) or the digest d of a body longer than the threshold;  *)
(* the ref "sha256:<hex of d>" is written d and the empty ref 0.           *)
(***************************************************************************)
Jobs == 1 .. NumJobs
Digests == 1 .. NumDigests
Bodies == {0} \cup Digests
NoFile == -1
ZeroTime == -1
NoRow == [createdAt |-> -1, reqRef |-> 0, respRef |-> 0]
NoJob == [id |-> 0, createdAt |-> -1, reqBody |-> 0, respBody |-> 0, reqRef |-> 0, respRef |-> 0]
\* GarbageCollect(context.Background(), refs, time.Hour)
MinAgeHours == 1
\* time.Since(lastCleanup) >= 6*time.Hour
CleanupPeriodHours == 6
\* time.Since(lastBlobGC) >= 24*time.Hour
BlobGCPeriodHours == 24
\* time.Duration(retentionDays) * 24 * time.Hour
HoursPerDay == 24

GCInitAt(t) ==
    /\ now = t
    /\ ticks = 0
    /\ retentionDays \in {0, 1}
    /\ blobs = [d \in Digests |-> NoFile]
    /\ logRows = [j \in Jobs |-> NoRow]
    /\ jobDone = {}
    /\ dpc = "idle"
    /\ dfacet = "req"
    /\ dentry = NoJob
    /\ rpc = "wait"
    /\ lastCleanup = ZeroTime
    /\ lastBlobGC = ZeroTime
    /\ gcRefs = {}
    /\ gcCutoff = ZeroTime
    /\ gcTodo = {}
    /\ gcDeletedLive = FALSE
    /\ savedDangling = FALSE

GCInit == GCInitAt(0)

\* The clock advances by one of the durations the retention loop tells
\* apart.  One DetachingRepository.SaveLog call (blob Put followed by the
\* durable save) and one iteration of the retention loop are taken to last
\* less than MinAgeHours, and the loop's first iteration to run at start.
TickSteps == {MinAgeHours, BlobGCPeriodHours}

Tick ==
    /\ ticks < MaxTicks
    /\ dpc = "idle"
    /\ rpc = "wait"
    /\ retentionDays = 0 \/ lastCleanup /= ZeroTime
    /\ ticks' = ticks + 1
    /\ \E dt \in TickSteps : now' = now + dt
    /\ UNCHANGED <<retentionDays, blobs, logRows, jobDone, dpc, dfacet, dentry, rpc,
                   lastCleanup, lastBlobGC, gcRefs, gcCutoff, gcTodo, gcDeletedLive,
                   savedDangling>>
    /\ UNCHANGED asyncVars
    /\ UNCHANGED callVars
    /\ UNCHANGED laterVars

(***************************************************************************)
(* DetachingRepository.SaveLog with FileBlobStore.Put.                     *)
(***************************************************************************)
FacetBody(e, f) == IF f = "req" THEN e.reqBody ELSE e.respBody
FacetRef(e, f) == IF f = "req" THEN e.reqRef ELSE e.respRef
\* logEntry.XBodyRef = ref; logEntry.XBody = truncateUTF8(...)
WithRef(e, f, ref) == IF f = "req" THEN [e EXCEPT !.reqRef = ref] ELSE [e EXCEPT !.respRef = ref]
\* logEntry.XBodyRef == "" && int64(len(logEntry.XBody)) > detachOver
ShouldDetach(e, f) == FacetRef(e, f) = 0 /\ FacetBody(e, f) /= 0

\* After a facet: the response facet follows the request facet, then inner.SaveLog.
FacetDone(e, f) ==
    /\ dentry' = e
    /\ IF f = "req"
          THEN dfacet' = "resp" /\ dpc' = "stat"
          ELSE dfacet' = "req" /\ dpc' = "save"

\* The worker hands the next entry to DetachingRepository.SaveLog.
DetachBegin ==
    /\ dpc = "idle"
    /\ \E j \in Jobs \ jobDone, rq \in Bodies, rs \in Bodies :
          /\ jobDone' = jobDone \cup {j}
          /\ dentry' = [id |-> j, createdAt |-> now, reqBody |-> rq, respBody |-> rs,
                        reqRef |-> 0, respRef |-> 0]
    /\ dfacet' = "req"
    /\ dpc' = "stat"
    /\ UNCHANGED <<now, ticks, retentionDays, blobs, logRows, rpc, lastCleanup, lastBlobGC,
                   gcRefs, gcCutoff, gcTodo, gcDeletedLive, savedDangling>>
    /\ UNCHANGED asyncVars
    /\ UNCHANGED callVars
    /\ UNCHANGED laterVars

\* Put, first half: os.Stat(finalPath) succeeds -> return ref, nothing written.
\* A facet that is not to be detached is skipped.
PutStat ==
    /\ dpc = "stat"
    /\ IF ~ShouldDetach(dentry, dfacet)
          THEN FacetDone(dentry, dfacet)
          ELSE IF blobs[FacetBody(dentry, dfacet)] /= NoFile
                  THEN FacetDone(WithRef(dentry, dfacet, FacetBody(dentry, dfacet)), dfacet)
                  ELSE dpc' = "store" /\ UNCHANGED <<dentry, dfacet>>
    /\ UNCHANGED <<now, ticks, retentionDays, blobs, logRows, jobDone, rpc, lastCleanup,
                   lastBlobGC, gcRefs, gcCutoff, gcTodo, gcDeletedLive, savedDangling>>
    /\ UNCHANGED asyncVars
    /\ UNCHANGED callVars
    /\ UNCHANGED laterVars

\* Put, second half: MkdirAll, WriteFile(tmpPath), Rename(tmpPath, finalPath).
\* The object appears with the mtime of the write.  On an error the body
\* stays inline and the ref empty.
PutStore ==
    /\ dpc = "store"
    /\ \E ok \in BOOLEAN :
          IF ok
             THEN /\ blobs' = [blobs EXCEPT ![FacetBody(dentry, dfacet)] = now]
                  /\ FacetDone(WithRef(dentry, dfacet, FacetBody(dentry, dfacet)), dfacet)
             ELSE /\ UNCHANGED blobs
                  /\ FacetDone(dentry, dfacet)
    /\ UNCHANGED <<now, ticks, retentionDays, logRows, jobDone, rpc, lastCleanup, lastBlobGC,
                   gcRefs, gcCutoff, gcTodo, gcDeletedLive, savedDangling>>
    /\ UNCHANGED asyncVars
    /\ UNCHANGED callVars
    /\ UNCHANGED laterVars

Exists(ref) == ref = 0 \/ blobs[ref] /= NoFile

\* r.inner.SaveLog(logEntry): the upsert of the row, which may fail.
DetachSave ==
    /\ dpc = "save"
    /\ \E ok \in BOOLEAN :
          IF ok
             THEN /\ logRows' = [logRows EXCEPT ![dentry.id] =
                                   [createdAt |-> dentry.createdAt,
                                    reqRef |-> dentry.reqRef, respRef |-> dentry.respRef]]
                  /\ savedDangling' = (savedDangling \/ ~Exists(dentry.reqRef)
                                                     \/ ~Exists(dentry.respRef))
             ELSE UNCHANGED <<logRows, savedDangling>>
    /\ dentry' = NoJob
    /\ dpc' = "idle"
    /\ UNCHANGED <<now, ticks, retentionDays, blobs, jobDone, dfacet, rpc, lastCleanup,
                   lastBlobGC, gcRefs, gcCutoff, gcTodo, gcDeletedLive>>
    /\ UNCHANGED asyncVars
    /\ UNCHANGED callVars
    /\ UNCHANGED laterVars

(***************************************************************************)
(* The retention loop of main and FileBlobStore.GarbageCollect.            *)
(***************************************************************************)
\* lastX.IsZero() || time.Since(lastX) >= period
Due(last, period) == last = ZeroTime \/ now - last >= period

\* SQLiteRepository.ListBlobRefs: the distinct non-empty refs of both columns.
ListBlobRefs(t) ==
    ({t[j].reqRef : j \in {k \in Jobs : t[k] /= NoRow}}
        \cup {t[j].respRef : j \in {k \in Jobs : t[k] /= NoRow}}) \ {0}

\* DELETE FROM request_logs WHERE created_at < before
DeleteLogsBefore(t, before) ==
    [j \in Jobs |-> IF t[j] /= NoRow /\ t[j].createdAt < before THEN NoRow ELSE t[j]]

\* The walk's decision for a file whose name is the hex of a digest:
\* skip it if referenced, skip it if ModTime().After(cutoff), else remove it.
\* cutoff stays the zero time, and no file is kept for its age, unless minAge > 0
\* (mAge).  Part II writes the name by its digest d.
GCRemovesIgnoringAge(name, mtime, referenced, mAge, cutoff) == name \notin referenced

GCRemoves(name, mtime, referenced, mAge, cutoff) ==
    /\ name \notin referenced
    /\ ~(mAge > 0 /\ mtime > cutoff)

\* One iteration starts: retentionDays > 0 and the cleanup is due;
\* asyncRepo.DeleteLogsBefore(now - retentionDays*24h).
RetentionPurge ==
    /\ rpc = "wait"
    /\ retentionDays > 0
    /\ Due(lastCleanup, CleanupPeriodHours)
    /\ \E ok \in BOOLEAN :
          logRows' = IF ok THEN DeleteLogsBefore(logRows, now - retentionDays * HoursPerDay)
                           ELSE logRows
    /\ rpc' = "gc"
    /\ UNCHANGED <<now, ticks, retentionDays, blobs, jobDone, dpc, dfacet, dentry,
                   lastCleanup, lastBlobGC, gcRefs, gcCutoff, gcTodo, gcDeletedLive,
                   savedDangling>>
    /\ UNCHANGED asyncVars
    /\ UNCHANGED callVars
    /\ UNCHANGED laterVars

\* If the blob GC is due: refs := sqliteRepo.ListBlobRefs(), and GarbageCollect
\* starts: cutoff = time.Now().Add(-minAge), WalkDir over the directory.
\* Otherwise the iteration ends with lastCleanup = time.Now().
RetentionGC ==
    /\ rpc = "gc"
    /\ IF Due(lastBlobGC, BlobGCPeriodHours)
          THEN /\ gcRefs' = ListBlobRefs(logRows)
               /\ gcCutoff' = now - MinAgeHours
               /\ gcTodo' = {d \in Digests : blobs[d] /= NoFile}
               /\ rpc' = "walk"
               /\ UNCHANGED lastCleanup
          ELSE /\ lastCleanup' = now
               /\ rpc' = "wait"
               /\ UNCHANGED <<gcRefs, gcCutoff, gcTodo>>
    /\ UNCHANGED <<now, ticks, retentionDays, blobs, logRows, jobDone, dpc, dfacet, dentry,
                   lastBlobGC, gcDeletedLive, savedDangling>>
    /\ UNCHANGED asyncVars
    /\ UNCHANGED callVars
    /\ UNCHANGED laterVars

\* The walk visits one file: os.Remove(path) unless it is to be kept.
GCVisit ==
    /\ rpc = "walk"
    /\ \E d \in gcTodo :
          /\ gcTodo' = gcTodo \ {d}
          /\ IF GCRemoves(d, blobs[d], gcRefs, MinAgeHours, gcCutoff)
                THEN /\ blobs' = [blobs EXCEPT ![d] = NoFile]
                     /\ gcDeletedLive' = (gcDeletedLive \/ d \in ListBlobRefs(logRows))
                ELSE UNCHANGED <<blobs, gcDeletedLive>>
    /\ UNCHANGED <<now, ticks, retentionDays, logRows, jobDone, dpc, dfacet, dentry, rpc,
                   lastCleanup, lastBlobGC, gcRefs, gcCutoff, savedDangling>>
    /\ UNCHANGED asyncVars
    /\ UNCHANGED callVars
    /\ UNCHANGED laterVars

\* GarbageCollect returns: lastBlobGC = time.Now(); lastCleanup = time.Now().
RetentionEnd ==
    /\ rpc = "walk"
    /\ gcTodo = {}
    /\ lastBlobGC' = now
    /\ lastCleanup' = now
    /\ rpc' = "wait"
    /\ UNCHANGED <<now, ticks, retentionDays, blobs, logRows, jobDone, dpc, dfacet, dentry,
                   gcRefs, gcCutoff, gcTodo, gcDeletedLive, savedDangling>>
    /\ UNCHANGED asyncVars
    /\ UNCHANGED callVars
    /\ UNCHANGED laterVars

GCNext ==
    \/ Tick
    \/ DetachBegin
    \/ PutStat
    \/ PutStore
    \/ DetachSave
    \/ RetentionPurge
    \/ RetentionGC
    \/ GCVisit
    \/ RetentionEnd

(***************************************************************************)
(* Part III: one GarbageCollect(ctx, referencedRefs, minAge) call.         *)
(*                                                                         *)
(* A file name is <<kind, d>>:                                             *)
(*   lower   hex.EncodeToString of digest d (what Put writes)              *)
(*   upper   the same 64 digits in upper case                              *)
(*   tmp     ".tmp-" + hex + "-" + nanoseconds (left by an interrupted Put)*)
(*   short   hex digits, but not 64 of them                                *)
(*   nonhex  64 characters that are not all hex digits                     *)
(* A ref is <<form, d>>:                                                   *)
(*   canon   "sha256:" + lower hex (what newSHA256Ref returns)             *)
(*   ui      " blob://SHA256:" + upper hex                                 *)
(*   bare    lower hex without an algorithm                                *)
(*   md5     "md5:" + lower hex                                            *)
(*   short   "sha256:" + fewer than 64 hex digits                          *)
(***************************************************************************)
HexKinds == {"lower", "upper"}
OtherKinds == {"tmp", "short", "nonhex"}
Names == ({"lower"} \X Digests) \cup (({"upper"} \cup OtherKinds) \X {1})
RefForms == {"canon", "ui", "bare", "md5", "short"}
\* The mtimes a file can have: the call is made at CallTime, so a file is
\* younger than MinAgeHours, exactly MinAgeHours old, or older.
CallTime == MinAgeHours + 1
Mtimes == 0 .. CallTime
\* minAge <= 0 (no grace) and the minAge of the retention loop.
MinAges == {0, MinAgeHours}

\* parseBlobRef: TrimSpace, TrimPrefix "blob://", split at ':', the algorithm
\* lower-cased must be sha256, the hash is lower-cased and must be 64 hex digits.
parseBlobRef(ref) ==
    IF ref[1] = "md5" THEN [err |-> "ErrUnsupportedAlgo", hexHash |-> <<"none", 0>>]
    ELSE IF ref[1] = "short" THEN [err |-> "ErrInvalidBlobRef", hexHash |-> <<"none", 0>>]
    ELSE [err |-> "nil", hexHash |-> <<"lower", ref[2]>>]

\* referenced: the hex hashes of the refs that parse; the others are skipped.
Referenced(refs) == {parseBlobRef(r).hexHash : r \in {x \in refs : parseBlobRef(x).err = "nil"}}

\* The walk looks at a file only if its name has no ".tmp-" prefix, is 64
\* characters long and hex.DecodeString accepts it (either case of digits).
IsBlobName(name) == name[1] \in HexKinds

\* The files of directory f.
Files(f) == {n \in Names : f[n] /= NoFile}

\* The walk over the files `todo`: os.Remove on each file that is to be
\* removed; deleted++ when it succeeds.  `fails` are the files on which
\* os.Remove fails.
RECURSIVE WalkDir(_, _, _, _, _, _, _)
WalkDir(todo, f, referenced, mAge, cutoff, fails, acc) ==
    IF todo = {} THEN acc
    ELSE LET name == CHOOSE n \in todo : TRUE
             try  == IsBlobName(name) /\ GCRemoves(name, f[name], referenced, mAge, cutoff)
             next == IF try /\ name \notin fails
                        THEN [deleted |-> acc.deleted + 1, removed |-> acc.removed \cup {name}]
                        ELSE acc
         IN  WalkDir(todo \ {name}, f, referenced, mAge, cutoff, fails, next)

\* No file, no ref, no call.
CallIdle ==
    /\ dir = [n \in Names |-> NoFile]
    /\ dirBefore = dir
    /\ liveRefs = {}
    /\ minAge = 0
    /\ removed = {}
    /\ deleted = 0
    /\ gpc = "done"

\* Any directory of at most MaxFiles files, refs to any digests in one of
\* the spellings, either minAge.
CallInit ==
    /\ \E fs \in SUBSET Names :
          /\ Cardinality(fs) <= MaxFiles
          /\ \E mt \in [fs -> Mtimes] :
                dir = [n \in Names |-> IF n \in fs THEN mt[n] ELSE NoFile]
    /\ dirBefore = dir
    /\ \E ds \in SUBSET Digests, form \in RefForms : liveRefs = {<<form, d>> : d \in ds}
    /\ minAge \in MinAges
    /\ removed = {}
    /\ deleted = 0
    /\ gpc = "ready"

\* The whole call.  cutoff is time.Now().Add(-minAge) if minAge > 0 and stays
\* the zero time otherwise.  os.Remove may fail on any file; a walk that
\* stops on an error leaves the files it did not reach like a failed Remove
\* does.  DirEntry.Info fails only for a file that is gone, on which
\* os.Remove fails as well.  The removal of empty prefix directories that
\* ends the call touches no file.
GarbageCollect ==
    /\ gpc = "ready"
    /\ LET referenced == Referenced(liveRefs)
           cutoff == IF minAge > 0 THEN now - minAge ELSE ZeroTime
           tries == {n \in Files(dir) :
                        IsBlobName(n) /\ GCRemoves(n, dir[n], referenced, minAge, cutoff)}
       IN  \E fails \in SUBSET tries :
              LET res == WalkDir(Files(dir), dir, referenced, minAge, cutoff, fails,
                                 [deleted |-> 0, removed |-> {}])
              IN  /\ removed' = res.removed
                  /\ deleted' = res.deleted
                  /\ dir' = [n \in Names |-> IF n \in res.removed THEN NoFile ELSE dir[n]]
    /\ gpc' = "done"
    /\ UNCHANGED <<dirBefore, liveRefs, minAge>>
    /\ UNCHANGED asyncVars
    /\ UNCHANGED gcVars
    /\ UNCHANGED laterVars

CallNext == GarbageCollect

(***************************************************************************)
(* Part IV: limitedCapture.  A byte is a number of Bytes; a byte slice is  *)
(* a sequence of bytes.                                                    *)
(***************************************************************************)
Bytes == {1, 2}
\* The byte slices of at most n bytes.
Slices(n) == UNION {[1 .. k -> Bytes] : k \in 0 .. n}
\* newLimitedCapture(max)
newLimitedCapture(max) == [max |-> max, buf |-> <<>>, total |-> 0, truncated |-> FALSE]
\* The caps a capture is made with: max <= 0 (nothing is kept) and 1 .. MaxCap.
Caps == -1 .. MaxCap

\* limitedCapture.Write(p): the capture after the call.  The call returns
\* len(p), nil on every path.
Write(c, p) ==
    LET c1 == [c EXCEPT !.total = @ + Len(p)]
        remaining == c.max - Len(c.buf)
    IN  IF c.max <= 0 THEN c1
        ELSE IF remaining <= 0 THEN [c1 EXCEPT !.truncated = TRUE]
        ELSE IF Len(p) > remaining
                THEN [c1 EXCEPT !.buf = @ \o SubSeq(p, 1, remaining), !.truncated = TRUE]
                ELSE [c1 EXCEPT !.buf = @ \o p]

\* limitedCapture.Bytes / Total / Truncated
CapBytes(c) == c.buf
Total(c) == c.total
Truncated(c) == c.truncated

CaptureIdle ==
    /\ capture = newLimitedCapture(0)
    /\ capWritten = <<>>
    /\ capCalls = 0

CaptureInit ==
    /\ \E max \in Caps : capture = newLimitedCapture(max)
    /\ capWritten = <<>>
    /\ capCalls = 0

\* One Write call with any slice, the empty one included.
CaptureWrite ==
    /\ capCalls < MaxWrites
    /\ \E p \in Slices(MaxChunk) :
          /\ capture' = Write(capture, p)
          /\ capWritten' = capWritten \o p
    /\ capCalls' = capCalls + 1
    /\ UNCHANGED notCaptureVars

CaptureNext == CaptureWrite

(***************************************************************************)
(* Part V: Proxy.ServeHTTP for a request that has been routed to an        *)
(* upstream (from the initial record on).                                  *)
(*                                                                         *)
(* The i-th byte of a body is written i, so that order and position show.  *)
(* The environment's part is fixed by a script:                            *)
(*   reqBody, respBody   the client's body and the upstream's body         *)
(*   reqMax, respMax     loggingCfg.MaxRequestBody / MaxResponseBody       *)
(*   flush               isStreaming(resp.Header)                          *)
(*   do                  what NewRequestWithContext / client.Do return     *)
(*   reqRead             how much of the body the transport reads          *)
(*   status              the upstream's status code                        *)
(*   copyFail, failAt    none, or resp.Body.Read fails after failAt bytes, *)
(*                       or the client takes failAt bytes and then fails   *)
(* Bodies are taken to carry no Content-Encoding, so that bodyForLog sets  *)
(* no truncation of its own; the body texts of the record are left out.    *)
(***************************************************************************)
Body(n) == [i \in 1 .. n |-> i]
Bodies2 == {Body(n) : n \in 0 .. MaxBody}
\* Errors client.Do returns before response headers: dial failure, upstream
\* reset, per-request timeout (ctx deadline), client disconnect (ctx canceled).
DoErrors == {"dial", "reset", "timeout", "canceled"}
\* Status codes of the upstream; net/http takes a status line "000" as code 0.
Statuses == {0, 200, 404}
SaveResults == {"nil", "ErrAsyncQueueFull", "ErrAsyncClosed"}
\* The body http.Error writes.
ErrorPage == <<"error text">>
StatusBadGateway == 502
StatusInternalServerError == 500

ScriptOf(rq, rs, qm, sm, fl, do, rd, st, cf, at) ==
    [reqBody |-> rq, respBody |-> rs, reqMax |-> qm, respMax |-> sm, flush |-> fl,
     do |-> do, reqRead |-> rd, status |-> st, copyFail |-> cf, failAt |-> at]

Scripts ==
    {ScriptOf(rq, <<>>, qm, 0, FALSE, "create", 0, 0, "none", 0) :
        rq \in Bodies2, qm \in Caps}
    \cup UNION {{ScriptOf(rq, <<>>, qm, 0, FALSE, e, rd, 0, "none", 0) :
                    qm \in Caps, e \in DoErrors, rd \in 0 .. Len(rq)} : rq \in Bodies2}
    \cup UNION {{ScriptOf(rq, rs, qm, sm, fl, "nil", Len(rq), st, "none", Len(rs)) :
                    rq \in Bodies2, qm \in Caps, sm \in Caps, fl \in BOOLEAN,
                    st \in Statuses} : rs \in Bodies2}
    \cup UNION {{ScriptOf(<<>>, rs, 0, sm, fl, "nil", 0, 200, cf, at) :
                    sm \in Caps, fl \in BOOLEAN, cf \in {"read", "write"},
                    at \in 0 .. Len(rs)} : rs \in Bodies2}

NoCapture == newLimitedCapture(0)
\* logEntry := &storage.RequestLog{ID, CreatedAt, Upstream, Method, ...}
\* ID is uuid.NewString(), written once, here.
NewLogEntry ==
    [id |-> "uuid", statusCode |-> 0, error |-> "", reqSize |-> 0, respSize |-> 0,
     truncated |-> FALSE]

ServeIdle ==
    /\ script = ScriptOf(<<>>, <<>>, 0, 0, FALSE, "nil", 0, 200, "none", 0)
    /\ spc = "done"
    /\ reqLeft = <<>>
    /\ upSent = <<>>
    /\ respLeft = <<>>
    /\ clientStatus = 0
    /\ clientBody = <<>>
    /\ flushed = 0
    /\ reqCapture = NoCapture
    /\ respCapture = NoCapture
    /\ logEntry = NewLogEntry
    /\ saved = <<>>

ServeInit ==
    /\ script \in Scripts
    /\ spc = "initial"
    /\ reqLeft = script.reqBody
    /\ upSent = <<>>
    /\ respLeft = <<>>
    /\ clientStatus = 0
    /\ clientBody = <<>>
    /\ flushed = 0
    /\ reqCapture = NoCapture
    /\ respCapture = NoCapture
    /\ logEntry = NewLogEntry
    /\ saved = <<>>

\* p.saveLogSnapshot(entry): the error of p.repo.SaveLog is logged and the
\* handler goes on to `next` whatever the result was.
saveLogSnapshotReturnsOnError(res, next) == IF res = "nil" THEN next ELSE "done"

saveLogSnapshot(res, next) == next

\* What limitedCapture.Write returns for p.
WriteResultShortWhenFull(c, p) ==
    [n |-> Len(Write(c, p).buf) - Len(c.buf), err |-> "nil"]

WriteResult(c, p) == [n |-> Len(p), err |-> "nil"]

\* logEntry.Error = fmt.Sprintf("upstream request failed: %v", err)
DoFailedNoError(e, err) == e

DoFailed(e, err) == [e EXCEPT !.error = "upstream request failed: " \o err]

\* Line 103: the initial record; then the capture of the request body is set up.
SaveInitial ==
    /\ spc = "initial"
    /\ \E res \in SaveResults :
          /\ saved' = Append(saved, <<"initial", logEntry, res>>)
          /\ spc' = saveLogSnapshot(res, "create")
    /\ reqCapture' = newLimitedCapture(script.reqMax)
    /\ UNCHANGED <<script, reqLeft, upSent, respLeft, clientStatus, clientBody, flushed,
                   respCapture, logEntry>>
    /\ UNCHANGED notServeVars

\* http.NewRequestWithContext(ctx, r.Method, upstreamURL.String(), body)
NewRequest ==
    /\ spc = "create"
    /\ IF script.do = "create"
          THEN /\ logEntry' = [logEntry EXCEPT !.error = "create upstream request: error"]
               /\ spc' = "fail_create"
          ELSE /\ UNCHANGED logEntry
               /\ spc' = "do"
    /\ UNCHANGED <<script, reqLeft, upSent, respLeft, clientStatus, clientBody, flushed,
                   reqCapture, respCapture, saved>>
    /\ UNCHANGED notServeVars

\* Inside client.Do the transport reads the body through the TeeReader:
\* n bytes from r.Body, reqCapture.Write of them, and they go upstream.  An
\* error of the Write is returned by the Read and fails the request.
TransportRead ==
    /\ spc = "do"
    /\ Len(upSent) < script.reqRead
    /\ \E n \in 1 .. MaxChunk :
          /\ n <= script.reqRead - Len(upSent)
          /\ LET p == SubSeq(reqLeft, 1, n)
                 w == WriteResult(reqCapture, p)
             IN  /\ reqCapture' = Write(reqCapture, p)
                 /\ reqLeft' = SubSeq(reqLeft, n + 1, Len(reqLeft))
                 /\ IF w.err = "nil"
                       THEN /\ upSent' = upSent \o p
                            /\ UNCHANGED <<spc, logEntry>>
                       ELSE /\ UNCHANGED upSent
                            /\ logEntry' = DoFailed(logEntry, "body read")
                            /\ spc' = "fail_do"
    /\ UNCHANGED <<script, respLeft, clientStatus, clientBody, flushed, respCapture, saved>>
    /\ UNCHANGED notServeVars

\* client.Do returns.  With a response: status, headers and Streaming go to
\* the record, headers and status to the client, respCapture is made.
\* w.WriteHeader panics for a code below 100: the handler ends there, with
\* nothing written and no finalized record.
DoReturn ==
    /\ spc = "do"
    /\ Len(upSent) = script.reqRead
    /\ IF script.do = "nil"
          THEN /\ logEntry' = [logEntry EXCEPT !.statusCode = script.status]
               /\ IF script.status < 100
                     THEN /\ spc' = "done"
                          /\ UNCHANGED <<clientStatus, respCapture, respLeft>>
                     ELSE /\ clientStatus' = script.status
                          /\ respCapture' = newLimitedCapture(script.respMax)
                          /\ respLeft' = script.respBody
                          /\ spc' = "copy"
          ELSE /\ logEntry' = DoFailed(logEntry, script.do)
               /\ spc' = "fail_do"
               /\ UNCHANGED <<clientStatus, respCapture, respLeft>>
    /\ UNCHANGED <<script, reqLeft, upSent, clientBody, flushed, reqCapture, saved>>
    /\ UNCHANGED notServeVars

\* Where the upstream's body ends or breaks, and how much the client takes.
ReadLimit == IF script.copyFail = "read" THEN script.failAt ELSE Len(script.respBody)
ClientTakes(p) ==
    IF script.copyFail = "write" /\ script.failAt - Len(clientBody) < Len(p)
       THEN script.failAt - Len(clientBody)
       ELSE Len(p)

\* total += int64(wn), with wn what the failed Write reports as written.
CopiedBeforeChunk(total, wn) == total

Copied(total, wn) == total + wn

\* copyWithOptionalFlush, one round of the loop (the same for io.CopyBuffer):
\* n, err := src.Read(buf); w.Write(buf[:n]) on MultiWriter(dst, capture),
\* which stops at the first writer that fails or writes short; Flush.
CopyChunk ==
    /\ spc = "copy"
    /\ Len(script.respBody) - Len(respLeft) < ReadLimit
    /\ \E n \in 1 .. MaxChunk :
          /\ n <= ReadLimit - (Len(script.respBody) - Len(respLeft))
          /\ LET p == SubSeq(respLeft, 1, n)
                 wn == ClientTakes(p)
                 w == WriteResult(respCapture, p)
             IN  /\ respLeft' = SubSeq(respLeft, n + 1, Len(respLeft))
                 /\ clientBody' = clientBody \o SubSeq(p, 1, wn)
                 /\ IF wn < Len(p)
                       THEN /\ logEntry' = [logEntry EXCEPT !.respSize = Copied(@, wn),
                                               !.error = "forward response failed: write"]
                            /\ spc' = "final"
                            /\ UNCHANGED <<respCapture, flushed>>
                       ELSE /\ respCapture' = Write(respCapture, p)
                            /\ IF w.err = "nil" /\ w.n = Len(p)
                                  THEN /\ logEntry' = [logEntry EXCEPT !.respSize = @ + Len(p)]
                                       /\ flushed' = IF script.flush THEN Len(clientBody')
                                                                     ELSE flushed
                                       /\ UNCHANGED spc
                                  ELSE /\ logEntry' = [logEntry EXCEPT !.respSize = @ + w.n,
                                               !.error = "forward response failed: short write"]
                                       /\ spc' = "final"
                                       /\ UNCHANGED flushed
    /\ UNCHANGED <<script, reqLeft, upSent, clientStatus, reqCapture, saved>>
    /\ UNCHANGED notServeVars

\* src.Read returns io.EOF (copyErr == nil) or another error.
CopyEnd ==
    /\ spc = "copy"
    /\ Len(script.respBody) - Len(respLeft) = ReadLimit
    /\ logEntry' = IF script.copyFail = "read"
                      THEN [logEntry EXCEPT !.error = "forward response failed: read"]
                      ELSE logEntry
    /\ spc' = "final"
    /\ UNCHANGED <<script, reqLeft, upSent, respLeft, clientStatus, clientBody, flushed,
                   reqCapture, respCapture, saved>>
    /\ UNCHANGED notServeVars

\* finalizeAndSaveLog(logEntry, startTime, reqCapture, respCap, loggingCfg);
\* respCap is nil on the two failure paths.
Finalize ==
    /\ spc \in {"final", "fail_create", "fail_do"}
    /\ LET e == [logEntry EXCEPT
                    !.reqSize = Total(reqCapture),
                    !.truncated = \/ Truncated(reqCapture)
                                  \/ (spc = "final" /\ Truncated(respCapture))]
       IN  /\ logEntry' = e
           /\ \E res \in SaveResults :
                 /\ saved' = Append(saved, <<"final", e, res>>)
                 /\ spc' = saveLogSnapshot(res, IF spc = "final" THEN "done"
                                                ELSE IF spc = "fail_do" THEN "reply_do"
                                                ELSE "reply_create")
    /\ UNCHANGED <<script, reqLeft, upSent, respLeft, clientStatus, clientBody, flushed,
                   reqCapture, respCapture>>
    /\ UNCHANGED notServeVars

\* http.Error(w, ..., http.StatusBadGateway / http.StatusInternalServerError)
ErrorReply ==
    /\ spc \in {"reply_do", "reply_create"}
    /\ clientStatus' = IF spc = "reply_do" THEN StatusBadGateway
                                          ELSE StatusInternalServerError
    /\ clientBody' = ErrorPage
    /\ spc' = "done"
    /\ UNCHANGED <<script, reqLeft, upSent, respLeft, flushed, reqCapture, respCapture,
                   logEntry, saved>>
    /\ UNCHANGED notServeVars

ServeNext ==
    \/ SaveInitial
    \/ NewRequest
    \/ TransportRead
    \/ DoReturn
    \/ CopyChunk
    \/ CopyEnd
    \/ Finalize
    \/ ErrorReply

(***************************************************************************)
(* Part VI: FileBlobStore.Put taken step by step (stat, the open and the   *)
(* write of os.WriteFile, rename), called by two goroutines at once, and   *)
(* FileBlobStore.Get.                                                      *)
(*                                                                         *)
(* The byte strings handed to Put are the members of Datas.  sha256 has    *)
(* no known collision, so Sum256 is modelled as an injective map from      *)
(* Datas to the digests; hex.EncodeToString is injective and yields lower  *)
(* case digits, so a digest d is written <<"lower", d>> as in Part III.    *)
(*                                                                         *)
(* tmpPath is ".tmp-" + hexHash + "-" + time.Now().UnixNano(): two calls   *)
(* with the same data that read the same clock value have the same         *)
(* temporary path.  os.WriteFile opens with O_CREATE|O_TRUNC, writes and   *)
(* closes; a file that is renamed or removed while a caller has it open    *)
(* keeps that caller's descriptor (POSIX), or the rename and the remove    *)
(* fail while it is open (Windows).                                        *)
(***************************************************************************)
\* The goroutines that call Put at the same time.
Writers == {1, 2}
Datas == 1 .. NumDigests

\* sha256.Sum256 restricted to Datas.
Sum256Prefix(data) == 1
Sum256(data) == (data % NumDigests) + 1

\* "sha256:" + hex.EncodeToString(sum[:])
newSHA256Ref(sum) == <<"canon", sum>>

\* filepath.Join(baseDir, hexHash[:2], hexHash)
pathFor(hexHash) == <<"objects", hexHash>>

FinalPaths == {pathFor(<<"lower", d>>) : d \in Digests}

\* time.Now().UnixNano() as read by the calls in progress.
Nanos == {1, 2}

\* filepath.Join(dir, ".tmp-"+hexHash+"-"+strconv.FormatInt(nano, 10))
tmpPathFor(hexHash, nano) == <<"tmp", hexHash, nano>>

TmpPaths == {tmpPathFor(<<"lower", d>>, t) : d \in Digests, t \in Nanos}
NoTmp == <<"tmp", "none", 0>>

\* What a file holds between the truncating open and the end of the write.
Partial == 0

\* Where an open file is: under its temporary path, under a final path
\* (it was renamed while open), or nowhere (removed or replaced while open).
NoFd == <<"none">>
Unlinked == <<"unlinked">>

\* The refs handed to Get: those Put can return, in the spellings
\* parseBlobRef tolerates, and the ones it rejects.
GetRefs == RefForms \X Digests

NoGet == <<"none", "none", NoFile>>

PutIdle ==
    /\ files = [p \in FinalPaths |-> NoFile]
    /\ tmp = [p \in TmpPaths |-> NoFile]
    /\ ppc = [w \in Writers |-> "done"]
    /\ pdata = [w \in Writers |-> 0]
    /\ ptmp = [w \in Writers |-> NoTmp]
    /\ pfd = [w \in Writers |-> NoFd]
    /\ pfault = [w \in Writers |-> FALSE]
    /\ pres = [w \in Writers |-> "none"]
    /\ putLog = {}
    /\ putCalls = MaxPuts
    /\ lastGet = NoGet

PutInit ==
    /\ files = [p \in FinalPaths |-> NoFile]
    /\ tmp = [p \in TmpPaths |-> NoFile]
    /\ ppc = [w \in Writers |-> "idle"]
    /\ pdata = [w \in Writers |-> 0]
    /\ ptmp = [w \in Writers |-> NoTmp]
    /\ pfd = [w \in Writers |-> NoFd]
    /\ pfault = [w \in Writers |-> FALSE]
    /\ pres = [w \in Writers |-> "none"]
    /\ putLog = {}
    /\ putCalls = 0
    /\ lastGet = NoGet

\* hexHash and finalPath of the Put call in progress in w.
HexHashOf(w) == parseBlobRef(newSHA256Ref(Sum256(pdata[w]))).hexHash
FinalPathOf(w) == pathFor(HexHashOf(w))

\* Put returns (ref, nil) in w.
PutReturnsRef(w) ==
    /\ putLog' = putLog \cup {<<pdata[w], newSHA256Ref(Sum256(pdata[w]))>>}
    /\ ppc' = [ppc EXCEPT ![w] = "idle"]
    /\ pres' = [pres EXCEPT ![w] = "ref"]

\* Put returns ("", err) in w.
PutReturnsErr(w) ==
    /\ putLog' = putLog
    /\ ppc' = [ppc EXCEPT ![w] = "idle"]
    /\ pres' = [pres EXCEPT ![w] = "err"]

\* Put(ctx, data) is called in w.
PutCall(w) ==
    /\ ppc[w] = "idle"
    /\ putCalls < MaxPuts
    /\ \E data \in Datas : pdata' = [pdata EXCEPT ![w] = data]
    /\ putCalls' = putCalls + 1
    /\ ppc' = [ppc EXCEPT ![w] = "stat"]
    /\ ptmp' = [ptmp EXCEPT ![w] = NoTmp]
    /\ pfault' = [pfault EXCEPT ![w] = FALSE]
    /\ pres' = [pres EXCEPT ![w] = "none"]
    /\ UNCHANGED <<files, tmp, pfd, putLog, lastGet>>
    /\ UNCHANGED notPutVars

\* os.Stat(finalPath): the object is there and Put returns its ref, or it
\* is not and Put goes on to os.MkdirAll, which succeeds or fails, and to
\* tmpPath, which takes the clock value the call reads.
BlobStat(w) ==
    /\ ppc[w] = "stat"
    /\ IF files[FinalPathOf(w)] /= NoFile
          THEN PutReturnsRef(w) /\ UNCHANGED <<ptmp, pfault>>
          ELSE \/ /\ \E t \in Nanos :
                        ptmp' = [ptmp EXCEPT ![w] = tmpPathFor(HexHashOf(w), t)]
                  /\ ppc' = [ppc EXCEPT ![w] = "open"]
                  /\ UNCHANGED <<putLog, pres, pfault>>
               \/ /\ PutReturnsErr(w)
                  /\ pfault' = [pfault EXCEPT ![w] = TRUE]
                  /\ UNCHANGED ptmp
    /\ UNCHANGED <<files, tmp, pdata, pfd, putCalls, lastGet>>
    /\ UNCHANGED notPutVars

\* os.WriteFile, first half: OpenFile(tmpPath, O_WRONLY|O_CREATE|O_TRUNC).
\* The file under tmpPath is created or emptied, whoever made it.
BlobOpen(w) ==
    /\ ppc[w] = "open"
    /\ \/ /\ tmp' = [tmp EXCEPT ![ptmp[w]] = Partial]
          /\ pfd' = [pfd EXCEPT ![w] = ptmp[w]]
          /\ ppc' = [ppc EXCEPT ![w] = "write"]
          /\ UNCHANGED <<putLog, pres, pfault>>
       \/ /\ PutReturnsErr(w)
          /\ pfault' = [pfault EXCEPT ![w] = TRUE]
          /\ UNCHANGED <<tmp, pfd>>
    /\ UNCHANGED <<files, pdata, ptmp, putCalls, lastGet>>
    /\ UNCHANGED notPutVars

\* os.WriteFile, second half: f.Write(data) and f.Close().  The bytes go
\* to the file the descriptor is open on, wherever that file is by now; a
\* failed write leaves the file as it is.
BlobWrite(w) ==
    /\ ppc[w] = "write"
    /\ \/ /\ tmp' = IF pfd[w] \in TmpPaths THEN [tmp EXCEPT ![pfd[w]] = pdata[w]] ELSE tmp
          /\ files' = IF pfd[w] \in FinalPaths THEN [files EXCEPT ![pfd[w]] = pdata[w]]
                                               ELSE files
          /\ ppc' = [ppc EXCEPT ![w] = "rename"]
          /\ UNCHANGED <<putLog, pres, pfault>>
       \/ /\ PutReturnsErr(w)
          /\ pfault' = [pfault EXCEPT ![w] = TRUE]
          /\ UNCHANGED <<tmp, files>>
    /\ pfd' = [pfd EXCEPT ![w] = NoFd]
    /\ UNCHANGED <<pdata, ptmp, putCalls, lastGet>>
    /\ UNCHANGED notPutVars

\* Another caller has the file under path open.
OpenElsewhere(w, path) == \E v \in Writers \ {w} : pfd[v] = path

\* The descriptors after the file under `from` went to `to` (Unlinked: it
\* was removed) and took the place of the file that was under `to`.
Moved(from, to) ==
    [v \in Writers |-> IF pfd[v] = from THEN to
                       ELSE IF pfd[v] = to THEN Unlinked
                       ELSE pfd[v]]

\* os.Rename(tmpPath, finalPath): the file under tmpPath becomes the
\* object in one step; or the rename fails (no file under tmpPath, the
\* file is open elsewhere, or an error of its own), os.Remove(tmpPath) is
\* tried and Put returns the ref if the object is there, the error
\* otherwise.
BlobRename(w) ==
    /\ ppc[w] = "rename"
    /\ \/ /\ tmp[ptmp[w]] /= NoFile
          /\ files' = [files EXCEPT ![FinalPathOf(w)] = tmp[ptmp[w]]]
          /\ tmp' = [tmp EXCEPT ![ptmp[w]] = NoFile]
          /\ pfd' = Moved(ptmp[w], FinalPathOf(w))
          /\ PutReturnsRef(w)
          /\ UNCHANGED pfault
       \/ /\ \E fault, kept \in BOOLEAN :
                /\ fault \/ tmp[ptmp[w]] = NoFile \/ OpenElsewhere(w, ptmp[w])
                /\ kept => OpenElsewhere(w, ptmp[w])
                /\ pfault' = [pfault EXCEPT ![w] = fault]
                /\ IF kept THEN UNCHANGED <<tmp, pfd>>
                           ELSE /\ tmp' = [tmp EXCEPT ![ptmp[w]] = NoFile]
                                /\ pfd' = Moved(ptmp[w], Unlinked)
          /\ files' = files
          /\ IF files[FinalPathOf(w)] /= NoFile
                THEN PutReturnsRef(w)
                ELSE PutReturnsErr(w)
    /\ UNCHANGED <<pdata, ptmp, putCalls, lastGet>>
    /\ UNCHANGED notPutVars

\* Get(ctx, ref): parseBlobRef, then os.ReadFile of the object's path.
Get(f, ref) ==
    LET parsed == parseBlobRef(ref) IN
    IF parsed.err /= "nil" THEN <<ref, parsed.err, NoFile>>
    ELSE IF f[pathFor(parsed.hexHash)] = NoFile THEN <<ref, "ErrBlobNotFound", NoFile>>
    ELSE <<ref, "nil", f[pathFor(parsed.hexHash)]>>

BlobGet ==
    /\ \E ref \in GetRefs : lastGet' = Get(files, ref)
    /\ UNCHANGED <<files, tmp, ppc, pdata, ptmp, pfd, pfault, pres, putLog, putCalls>>
    /\ UNCHANGED notPutVars

PutNext ==
    \/ \E w \in Writers : PutCall(w)
    \/ \E w \in Writers : BlobStat(w)
    \/ \E w \in Writers : BlobOpen(w)
    \/ \E w \in Writers : BlobWrite(w)
    \/ \E w \in Writers : BlobRename(w)
    \/ BlobGet

(***************************************************************************)
(* Part VII: truncateUTF8(s, maxBytes).  The repository holds two forms of *)
(* it: detach_repo.go cuts the byte slice and drops bytes from the end     *)
(* while utf8.Valid rejects it; blob_fs.go steps the cut index back over   *)
(* continuation bytes and then validates.                                  *)
(*                                                                         *)
(* A byte is written by its class: "a" is an ASCII byte, "L2", "L3", "L4"  *)
(* the lead byte of a rune of that many bytes, "C" a continuation byte     *)
(* (b & 0xC0 == 0x80).                                                     *)
(***************************************************************************)
RuneWidths == 1 .. 4
ByteClasses == {"a", "L2", "L3", "L4", "C"}

\* The encoding of one rune of w bytes.
RuneBytes(w) ==
    IF w = 1 THEN <<"a">>
    ELSE <<IF w = 2 THEN "L2" ELSE IF w = 3 THEN "L3" ELSE "L4">> \o [i \in 1 .. (w - 1) |-> "C"]

\* Number of bytes of the rune that a lead byte starts; 0 for a byte that
\* starts no rune.
WidthOf(b) ==
    IF b = "a" THEN 1 ELSE IF b = "L2" THEN 2 ELSE IF b = "L3" THEN 3
    ELSE IF b = "L4" THEN 4 ELSE 0

\* utf8.Valid / utf8.ValidString: the bytes are a sequence of whole runes.
RECURSIVE Valid(_)
Valid(b) ==
    IF b = <<>> THEN TRUE
    ELSE LET w == WidthOf(b[1]) IN
         /\ w > 0
         /\ Len(b) >= w
         /\ \A i \in 2 .. w : b[i] = "C"
         /\ Valid(SubSeq(b, w + 1, Len(b)))

RECURSIVE Encode(_)
Encode(ws) == IF ws = <<>> THEN <<>> ELSE RuneBytes(Head(ws)) \o Encode(Tail(ws))

\* The valid UTF-8 strings of at most MaxRunes runes.
ValidStrings == {Encode(ws) : ws \in UNION {[1 .. k -> RuneWidths] : k \in 0 .. MaxRunes}}

\* The byte caps: negative, zero, and up to one more than the longest string.
MaxBytesArgs == -1 .. (4 * MaxRunes + 1)

\* detach_repo.go: for len(cut) > 0 && !utf8.Valid(cut) { cut = cut[:len(cut)-1] }
RECURSIVE DropWhileInvalid(_)
DropWhileInvalid(cut) ==
    IF Len(cut) > 0 /\ ~Valid(cut) THEN DropWhileInvalid(SubSeq(cut, 1, Len(cut) - 1))
    ELSE cut

\* The cut without the loop that looks for a rune boundary.
truncateBytes(s, maxBytes) ==
    IF maxBytes <= 0 THEN <<>>
    ELSE IF Len(s) <= maxBytes THEN s
    ELSE SubSeq(s, 1, maxBytes)

\* truncateUTF8 of detach_repo.go.
truncateUTF8(s, maxBytes) ==
    IF maxBytes <= 0 THEN <<>>
    ELSE IF Len(s) <= maxBytes THEN s
    ELSE DropWhileInvalid(SubSeq(s, 1, maxBytes))

\* blob_fs.go: for cut > 0 && (s[cut]&0xC0) == 0x80 { cut-- }
\* (s[cut] of the code is the byte after the first cut bytes).
RECURSIVE StepBack(_, _)
StepBack(s, cut) ==
    IF cut > 0 /\ s[cut + 1] = "C" THEN StepBack(s, cut - 1) ELSE cut

\* blob_fs.go: for cut > 0 && !utf8.ValidString(s[:cut]) { cut--; step back }
RECURSIVE ValidateBack(_, _)
ValidateBack(s, cut) ==
    IF cut > 0 /\ ~Valid(SubSeq(s, 1, cut)) THEN ValidateBack(s, StepBack(s, cut - 1))
    ELSE cut

\* truncateUTF8 of blob_fs.go.
truncateUTF8StepBack(s, maxBytes) ==
    IF maxBytes <= 0 THEN <<>>
    ELSE IF Len(s) <= maxBytes THEN s
    ELSE LET cut == IF maxBytes > Len(s) THEN Len(s) ELSE maxBytes
         IN  SubSeq(s, 1, ValidateBack(s, StepBack(s, cut)))

TruncIdle ==
    /\ ts = <<>>
    /\ tmaxBytes = 0
    /\ tform = "idle"
    /\ tresult = <<>>

TruncInit ==
    /\ ts \in ValidStrings
    /\ tmaxBytes \in MaxBytesArgs
    /\ tform = "none"
    /\ tresult = <<>>

\* truncateUTF8(s, maxBytes) of detach_repo.go is called.
TruncateDetachRepo ==
    /\ tform = "none"
    /\ tform' = "detach_repo.go"
    /\ tresult' = truncateUTF8(ts, tmaxBytes)
    /\ UNCHANGED <<ts, tmaxBytes>>
    /\ UNCHANGED notTruncVars

\* truncateUTF8(s, maxBytes) of blob_fs.go is called.
TruncateBlobFs ==
    /\ tform = "none"
    /\ tform' = "blob_fs.go"
    /\ tresult' = truncateUTF8StepBack(ts, tmaxBytes)
    /\ UNCHANGED <<ts, tmaxBytes>>
    /\ UNCHANGED notTruncVars

TruncNext ==
    \/ TruncateDetachRepo
    \/ TruncateBlobFs

(***************************************************************************)
(* Part VIII: DetachingRepository.SaveLog for one record.  main.go builds  *)
(* the repository with a blob store and a configuration, so r.blobs and    *)
(* r.cfg are set, and AsyncRepository hands it a non-nil record.  The      *)
(* logging configuration can be changed at run time without validation     *)
(* (PUT /api/config), so both settings may be zero or negative.            *)
(***************************************************************************)
Facets == {"request", "response"}
NoRef == ""

\* The inline bodies: UTF-8 strings of runes of 1 and 3 bytes, and a body
\* that the capture cut inside a rune.
DetachBodies ==
    {Encode(ws) : ws \in UNION {[1 .. k -> {1, 3}] : k \in 0 .. MaxBodyRunes}}
        \cup {<<"a", "L3">>}

\* RequestBodyRef / ResponseBodyRef of the record received.
InputRefs == {NoRef, "sha256:0"}

\* The refs blobs.Put returns with a nil error.
PutRefs == {"sha256:1", "sha256:2"}

Thresholds == -1 .. MaxThreshold

TruncForms == {"detach_repo.go", "blob_fs.go"}

FacetRecords == [body : DetachBodies, ref : InputRefs]

NoFacet == [body |-> <<>>, ref |-> NoRef, size |-> 0]

\* A record: the two body facets with their body_size.  The request body
\* was captured whole, the response body_size counts one byte more than the
\* inline body holds.
DetachRecord(rq, rs) ==
    [request  |-> [body |-> rq.body, ref |-> rq.ref, size |-> Len(rq.body)],
     response |-> [body |-> rs.body, ref |-> rs.ref, size |-> Len(rs.body) + 1]]

DetachIdle ==
    /\ drcfg = [detachOver |-> 0, previewBytes |-> 0]
    /\ drform = "detach_repo.go"
    /\ drinput = [request |-> NoFacet, response |-> NoFacet]
    /\ drentry = [request |-> NoFacet, response |-> NoFacet]
    /\ drpc = "done"
    /\ drputs = <<>>
    /\ drinner = <<>>
    /\ drreturn = "none"

DetachInit ==
    /\ drcfg \in [detachOver : Thresholds, previewBytes : Thresholds]
    /\ drform \in TruncForms
    /\ \E rq, rs \in FacetRecords : drinput = DetachRecord(rq, rs)
    /\ drentry = drinput
    /\ drpc = "call"
    /\ drputs = <<>>
    /\ drinner = <<>>
    /\ drreturn = "none"

\* logEntry.RequestBodyRef == "" && int64(len(logEntry.RequestBody)) > detachOver
OverThresholdOrAt(facet, detachOver) == facet.ref = NoRef /\ Len(facet.body) >= detachOver
OverThreshold(facet, detachOver) == facet.ref = NoRef /\ Len(facet.body) > detachOver

\* The position after a facet whose blobs.Put failed: the error is logged
\* and SaveLog goes on.
AfterFacet(f) == IF f = "request" THEN "response" ELSE "inner"
AfterPutFailedReturn(f) == "done"
AfterPutFailed(f) == AfterFacet(f)

\* truncateUTF8(body, previewBytes) in the form the build holds.
Preview(body, previewBytes) ==
    IF drform = "detach_repo.go" THEN truncateUTF8(body, previewBytes)
    ELSE truncateUTF8StepBack(body, previewBytes)

\* SaveLog is entered: detachOver <= 0 goes straight to inner.SaveLog.
DetachEnter ==
    /\ drpc = "call"
    /\ drpc' = IF drcfg.detachOver <= 0 THEN "inner" ELSE "request"
    /\ UNCHANGED <<drcfg, drform, drinput, drentry, drputs, drinner, drreturn>>
    /\ UNCHANGED notDetachVars

\* One facet: blobs.Put on the inline body if it is to be detached; on
\* success the ref is stamped and the body replaced by its preview.
DetachFacet(f) ==
    /\ drpc = f
    /\ IF OverThreshold(drentry[f], drcfg.detachOver)
          THEN \/ \E ref \in PutRefs :
                     /\ drputs' = Append(drputs, <<f, drentry[f].body, "nil", ref>>)
                     /\ drentry' = [drentry EXCEPT
                                      ![f].ref = ref,
                                      ![f].body = Preview(drentry[f].body, drcfg.previewBytes)]
                     /\ drpc' = AfterFacet(f)
               \/ /\ drputs' = Append(drputs, <<f, drentry[f].body, "err", NoRef>>)
                  /\ drentry' = drentry
                  /\ drpc' = AfterPutFailed(f)
          ELSE /\ drputs' = drputs
               /\ drentry' = drentry
               /\ drpc' = AfterFacet(f)
    /\ UNCHANGED <<drcfg, drform, drinput, drinner, drreturn>>
    /\ UNCHANGED notDetachVars

DetachRequestBody == DetachFacet("request")

DetachResponseBody == DetachFacet("response")

\* return r.inner.SaveLog(logEntry)
DetachInner ==
    /\ drpc = "inner"
    /\ drinner' = Append(drinner, drentry)
    /\ drreturn' \in {"nil", "err"}
    /\ drpc' = "done"
    /\ UNCHANGED <<drcfg, drform, drinput, drentry, drputs>>
    /\ UNCHANGED notDetachVars

DetachNext ==
    \/ DetachEnter
    \/ DetachRequestBody
    \/ DetachResponseBody
    \/ DetachInner

(***************************************************************************)
(* Part IX: SQLiteRepository.SaveLog.  request_logs is kept as the list of *)
(* its rows, so that the number of rows with one id is a property of the   *)
(* statement and not of the representation.  The statement is atomic: it   *)
(* takes effect whole or fails and leaves the table as it was.             *)
(***************************************************************************)
\* The columns of request_logs, in the order of the INSERT.
Columns ==
    <<"id", "created_at", "upstream", "target_url", "method", "path", "query",
      "request_headers", "request_body", "request_body_ref", "request_body_size",
      "status_code", "response_headers", "response_body", "response_body_ref",
      "response_body_size", "streaming", "latency_ms", "error", "truncated">>

ColumnSet == {Columns[i] : i \in 1 .. Len(Columns)}

\* The columns named after ON CONFLICT(id) DO UPDATE SET.
SetColumns ==
    {"created_at", "upstream", "target_url", "method", "path", "query",
     "request_headers", "request_body", "request_body_ref", "request_body_size",
     "status_code", "response_headers", "response_body", "response_body_ref",
     "response_body_size", "streaming", "latency_ms", "error", "truncated"}

\* The columns written through json.Marshal.
HeaderColumns == {"request_headers", "response_headers"}

\* The fields the proxy has not filled in when it saves the initial record.
ResponseFields ==
    {"status_code", "response_headers", "response_body", "response_body_ref",
     "response_body_size", "streaming", "latency_ms", "error", "truncated"}

\* The fields of RequestLog: one per column, and Tag, which no statement
\* of the repository writes or reads and which nothing in the proxy sets.
Fields == ColumnSet \cup {"tag"}

\* log.ID == ""
EmptyID == 0
GivenIds == {1, 2}
\* The k-th id uuid.New() returns.
NewUUID(k) == Cardinality(GivenIds) + k

\* CreatedAt of a record that carries one, and time.Now() at the k-th call.
GivenTime == 0
TimeNow(k) == k

\* The record of the v-th call: every field that is filled in carries v.
SaveRecord(id, createdAt, kind, v) ==
    [f \in Fields |->
        IF f = "id" THEN id
        ELSE IF f = "created_at" THEN createdAt
        ELSE IF f = "tag" THEN 0
        ELSE IF kind = "initial" /\ f \in ResponseFields THEN 0
        ELSE v]

\* The first lines of SaveLog: an empty ID and a zero CreatedAt are filled.
Normalize(log, k, u) ==
    [log EXCEPT !["id"] = IF @ = EmptyID THEN NewUUID(u + 1) ELSE @,
                !["created_at"] = IF @ = ZeroTime THEN TimeNow(k) ELSE @]

\* The values handed to Exec, by column.
ExecArgs(log) ==
    [c \in ColumnSet |-> IF c \in HeaderColumns THEN <<"json", log[c]>> ELSE log[c]]

\* DO UPDATE SET c = excluded.c for the columns listed.
DoUpdateSetWithoutRefs(old, excluded) ==
    [c \in ColumnSet |->
        IF c \in SetColumns \ {"request_body_ref", "response_body_ref"}
           THEN excluded[c] ELSE old[c]]
DoUpdateSet(old, excluded) ==
    [c \in ColumnSet |-> IF c \in SetColumns THEN excluded[c] ELSE old[c]]

\* INSERT INTO request_logs (...) VALUES (...) ON CONFLICT(id) DO UPDATE SET ...
InsertOnConflict(t, excluded) ==
    LET hit == {i \in 1 .. Len(t) : t[i]["id"] = excluded["id"]} IN
    IF hit = {} THEN Append(t, excluded)
    ELSE [i \in 1 .. Len(t) |-> IF i \in hit THEN DoUpdateSet(t[i], excluded) ELSE t[i]]

SqlIdle ==
    /\ table = <<>>
    /\ sqlSaves = <<>>
    /\ uuids = MaxSaves

SqlInit ==
    /\ table = <<>>
    /\ sqlSaves = <<>>
    /\ uuids = 0

\* SaveLog(log): the record is completed, Exec runs the statement or fails.
SqlSaveLog ==
    /\ Len(sqlSaves) < MaxSaves
    /\ \E id \in {EmptyID} \cup GivenIds, createdAt \in {ZeroTime, GivenTime},
          kind \in {"initial", "final"}, err \in {"nil", "err"} :
          LET k   == Len(sqlSaves) + 1
              log == Normalize(SaveRecord(id, createdAt, kind, k), k, uuids)
          IN  /\ uuids' = IF id = EmptyID THEN uuids + 1 ELSE uuids
              /\ table' = IF err = "nil" THEN InsertOnConflict(table, ExecArgs(log))
                                         ELSE table
              /\ sqlSaves' = Append(sqlSaves, <<log, err>>)
    /\ UNCHANGED notSqlVars

SqlNext == SqlSaveLog

(***************************************************************************)
(* Part X: config.ExtractSubdomain(host, proxyDomains).  A string is the   *)
(* sequence of its characters.  Hosts are spelled with a lower-case        *)
(* letter, an upper-case letter, the dot, the colon and the closing        *)
(* bracket of an IPv6 literal; configured domains may also hold blanks.    *)
(***************************************************************************)
HostChars == {"a", "B", ".", ":", "]"}

RECURSIVE SeqsUpTo(_, _)
SeqsUpTo(chars, n) ==
    IF n = 0 THEN {<<>>}
    ELSE LET shorter == SeqsUpTo(chars, n - 1)
         IN  shorter \cup {Append(q, c) : q \in {x \in shorter : Len(x) = n - 1}, c \in chars}

HostValues == SeqsUpTo(HostChars, MaxHostLen)

\* strings.ToLower
LowerChar(c) == IF c = "B" THEN "b" ELSE IF c = "A" THEN "a" ELSE c
ToLower(str) == [i \in 1 .. Len(str) |-> LowerChar(str[i])]

\* strings.TrimSpace
RECURSIVE TrimLeft(_)
TrimLeft(str) == IF str /= <<>> /\ Head(str) = " " THEN TrimLeft(Tail(str)) ELSE str
RECURSIVE TrimRight(_)
TrimRight(str) ==
    IF str /= <<>> /\ str[Len(str)] = " " THEN TrimRight(SubSeq(str, 1, Len(str) - 1)) ELSE str
TrimSpace(str) == TrimRight(TrimLeft(str))

\* strings.HasPrefix, TrimPrefix, HasSuffix, TrimSuffix, Contains (of one character)
HasPrefix(str, p) == Len(str) >= Len(p) /\ SubSeq(str, 1, Len(p)) = p
TrimPrefix(str, p) == IF HasPrefix(str, p) THEN SubSeq(str, Len(p) + 1, Len(str)) ELSE str
HasSuffix(str, x) == Len(str) >= Len(x) /\ SubSeq(str, Len(str) - Len(x) + 1, Len(str)) = x
TrimSuffix(str, x) == IF HasSuffix(str, x) THEN SubSeq(str, 1, Len(str) - Len(x)) ELSE str
Contains(str, c) == \E i \in 1 .. Len(str) : str[i] = c

\* The loop over host from its last character: cut at the first ':' met,
\* stop without cutting at a ']'.
RECURSIVE StripPort(_, _)
StripPort(host, i) ==
    IF i < 1 THEN host
    ELSE IF host[i] = ":" THEN SubSeq(host, 1, i - 1)
    ELSE IF host[i] = "]" THEN host
    ELSE StripPort(host, i - 1)

\* []string{"localhost"}: the default base domain is one label; it is
\* written here with the one lower-case letter hosts are spelled with.
Localhost == <<"a">>
DefaultDomains == <<Localhost>>

\* The configured lists of base domains.
DomainLists ==
    { <<>>,
      << <<"b">> >>,
      << <<"B">> >>,
      << <<".", "b">> >>,
      << <<" ", "b", " ">> >>,
      << <<>>, <<" ">> >>,
      << <<>>, <<"b">> >>,
      << <<"b">>, <<"a", ".", "b">> >>,
      << <<"a", ".", "B">>, <<"b">> >>,
      << <<".">> >> }

\* sub == "" || strings.Contains(sub, ".")  rejects the prefix.
AcceptSubAnyLabels(sub) == sub /= <<>>
AcceptSub(sub) == sub /= <<>> /\ ~Contains(sub, ".")

\* The body of the loop over proxyDomains, from the i-th domain on.
RECURSIVE MatchDomains(_, _, _)
MatchDomains(host, ds, i) ==
    IF i > Len(ds) THEN <<>>
    ELSE LET d0     == TrimSpace(ToLower(ds[i]))
             d      == TrimPrefix(d0, <<".">>)
             suffix == <<".">> \o d
             sub    == TrimSuffix(host, suffix)
         IN  IF d0 = <<>> THEN MatchDomains(host, ds, i + 1)
             ELSE IF Len(host) <= Len(suffix) \/ ~HasSuffix(host, suffix)
                  THEN MatchDomains(host, ds, i + 1)
             ELSE IF ~AcceptSub(sub) THEN MatchDomains(host, ds, i + 1)
             ELSE sub

ExtractSubdomain(host, proxyDomains) ==
    MatchDomains(ToLower(StripPort(host, Len(host))),
                 IF Len(proxyDomains) = 0 THEN DefaultDomains ELSE proxyDomains,
                 1)

HostIdle ==
    /\ xhost = <<>>
    /\ xdomains = <<>>
    /\ xpc = "idle"
    /\ xsub = <<>>

HostInit ==
    /\ xhost \in HostValues
    /\ xdomains \in DomainLists
    /\ xpc = "call"
    /\ xsub = <<>>

\* subdomain := config.ExtractSubdomain(r.Host, serverCfg.ProxyDomains)
ExtractCall ==
    /\ xpc = "call"
    /\ xsub' = ExtractSubdomain(xhost, xdomains)
    /\ xpc' = "done"
    /\ UNCHANGED <<xhost, xdomains>>
    /\ UNCHANGED notHostVars

HostNext == ExtractCall

(***************************************************************************)
(* Part XI: the request headers of one request.  A header name is the      *)
(* pair of its lower-case form and its spelling, so that                   *)
(* strings.EqualFold compares the first components; a header value is the  *)
(* sequence of its bytes.  r.Header holds the header under study with one  *)
(* or two values and possibly a Connection header.                         *)
(***************************************************************************)
\* The bytes a value is spelled with; the i-th byte of a plain value is the
\* i-th letter, so that every part of a value can be told from the others.
Letters == <<"a", "b", "c", "d", "e", "f", "g", "h", "i", "j", "k", "l", "m", "n", "o">>
Plain(n) == SubSeq(Letters, 1, n)
Stars == <<"*", "*", "*">>

\* The header values: plain values of every length, the value "***" and a
\* value of 11 bytes whose bytes 6 to 8 are "***".
HeaderValues ==
    {Plain(n) : n \in 0 .. MaxValueLen} \cup {Stars, Plain(5) \o Stars \o <<"i", "j", "k">>}

\* Header names as the server's parser spells them (canonical MIME form).
CanonicalNames == {"authorization", "x-api-key", "proxy-authorization", "x-request-id"}
Canonical(lower) == <<lower, "Canonical">>

\* textproto.CanonicalMIMEHeaderKey
CanonicalMIMEHeaderKey(k) == Canonical(k[1])

\* strings.EqualFold
EqualFold(a, b) == a[1] = b[1]

\* The configured lists of sensitive headers, in spellings of their own.
SensitiveLists ==
    { <<>>,
      << <<"authorization", "Authorization">>, <<"x-api-key", "x-api-key">>,
         <<"api-key", "api-key">> >>,
      << <<"authorization", "AUTHORIZATION">> >>,
      << <<"x-request-id", "X-Request-ID">>, <<"proxy-authorization", "proxy-authorization">> >> }

\* The tokens of the Connection header of the request: none, "close", or
\* the name of the header under study.
ConnectionChoices == {"absent", "close", "names-header"}

\* isHopByHopHeader
HopByHop ==
    {"connection", "keep-alive", "proxy-authenticate", "proxy-authorization",
     "proxy-connection", "te", "trailer", "transfer-encoding", "upgrade"}
isHopByHopHeader(header) == \E h \in HopByHop : EqualFold(header, <<h, h>>)

\* parseConnectionHeader(src.Values("Connection"))
parseConnectionHeader(h) ==
    IF h.connection = "absent" THEN {}
    ELSE IF h.connection = "close" THEN {Canonical("close")}
    ELSE {CanonicalMIMEHeaderKey(<<h.name[1], "token">>)}

\* value[:5] + "***" + value[len(value)-3:] for len(value) > 10, "***" otherwise
MaskValueFromTen(value) ==
    IF Len(value) >= 10
       THEN SubSeq(value, 1, 5) \o Stars \o SubSeq(value, Len(value) - 2, Len(value))
       ELSE Stars
MaskValue(value) ==
    IF Len(value) > 10
       THEN SubSeq(value, 1, 5) \o Stars \o SubSeq(value, Len(value) - 2, Len(value))
       ELSE Stars

\* The loop over sensitiveHeaders for the header k with first value `value`.
RECURSIVE SanitizeValue(_, _, _, _)
SanitizeValue(k, value, sensitiveHeaders, i) ==
    IF i > Len(sensitiveHeaders) THEN value
    ELSE IF EqualFold(k, sensitiveHeaders[i]) THEN MaskValue(value)
    ELSE SanitizeValue(k, value, sensitiveHeaders, i + 1)

\* sanitizeHeaders(headers, sensitiveHeaders): name -> stored value.
sanitizeHeaders(h, sensitiveHeaders) ==
    (IF h.connection = "absent" THEN <<>>
     ELSE [k \in {Canonical("connection")} |->
              SanitizeValue(k, IF h.connection = "close" THEN <<"c">> ELSE <<"h">>,
                            sensitiveHeaders, 1)])
    @@ [k \in {h.name} |-> SanitizeValue(k, h.values[1], sensitiveHeaders, 1)]

\* copyHeaders(dst, src): name -> values, without the hop-by-hop headers
\* and the headers the Connection header names.
copyHeaders(h) ==
    IF isHopByHopHeader(h.name) \/ CanonicalMIMEHeaderKey(h.name) \in parseConnectionHeader(h)
       THEN <<>>
       ELSE [k \in {h.name} |-> h.values]

NoHeaders == <<>>

MaskIdle ==
    /\ mheader = [name |-> Canonical("x-request-id"), values |-> <<Plain(0)>>, connection |-> "absent"]
    /\ msensitive = <<>>
    /\ mpc = "idle"
    /\ mlogged = NoHeaders
    /\ mrecords = <<>>
    /\ mupstream = NoHeaders

MaskInit ==
    /\ \E n \in CanonicalNames, v \in HeaderValues, more \in {<<>>, <<Plain(2)>>},
          c \in ConnectionChoices :
          mheader = [name |-> Canonical(n), values |-> <<v>> \o more, connection |-> c]
    /\ msensitive \in SensitiveLists
    /\ mpc = "entry"
    /\ mlogged = NoHeaders
    /\ mrecords = <<>>
    /\ mupstream = NoHeaders

\* logEntry := &storage.RequestLog{..., RequestHeaders: p.sanitizeHeaders(...)}
\* and p.saveLogSnapshot(logEntry)
MaskInitialRecord ==
    /\ mpc = "entry"
    /\ mlogged' = sanitizeHeaders(mheader, msensitive)
    /\ mrecords' = Append(mrecords, sanitizeHeaders(mheader, msensitive))
    /\ mpc' = "request"
    /\ UNCHANGED <<mheader, msensitive, mupstream>>
    /\ UNCHANGED notMaskVars

\* http.NewRequestWithContext fails (the record is finalized at once), or
\* p.copyHeaders(upstreamReq.Header, r.Header) fills the upstream request.
MaskCopyHeaders ==
    /\ mpc = "request"
    /\ \/ /\ mupstream' = copyHeaders(mheader)
          /\ mpc' = "sent"
       \/ /\ mupstream' = mupstream
          /\ mpc' = "finalize"
    /\ UNCHANGED <<mheader, msensitive, mlogged, mrecords>>
    /\ UNCHANGED notMaskVars

\* client.Do and the copy of the response: nothing touches the headers.
MaskRoundTrip ==
    /\ mpc = "sent"
    /\ mpc' = "finalize"
    /\ UNCHANGED <<mheader, msensitive, mlogged, mrecords, mupstream>>
    /\ UNCHANGED notMaskVars

\* finalizeAndSaveLog: logEntry.RequestHeaders is saved as it stands.
MaskFinalRecord ==
    /\ mpc = "finalize"
    /\ mrecords' = Append(mrecords, mlogged)
    /\ mpc' = "done"
    /\ UNCHANGED <<mheader, msensitive, mlogged, mupstream>>
    /\ UNCHANGED notMaskVars

MaskNext ==
    \/ MaskInitialRecord
    \/ MaskCopyHeaders
    \/ MaskRoundTrip
    \/ MaskFinalRecord

(***************************************************************************)
(* Part XII: copyWithOptionalFlush(dst, src, capture, flush) read by read. *)
(* src.Read returns n bytes (possibly none) and an error (nil, io.EOF or   *)
(* another one, possibly together with bytes); the Write on dst succeeds   *)
(* or fails after taking none of the bytes.  The capture never fails       *)
(* (Part IV), so MultiWriter(dst, capture) returns what dst returns.       *)
(* io.CopyBuffer makes the same reads and writes and never flushes.        *)
(***************************************************************************)
ReadErrors == {"nil", "EOF", "err"}

\* The results of the Read calls: up to MaxReads reads that return no
\* error, then one that returns io.EOF or another error.
ReadScripts ==
    UNION {{q \o <<last>> : q \in [1 .. k -> (0 .. MaxChunk) \X {"nil"}],
                            last \in (0 .. MaxChunk) \X {"EOF", "err"}}
           : k \in 0 .. (MaxReads - 1)}

\* flusher.Flush() follows a Write that returned no error.
FlushDueUnlessLast(werr, rerr) == werr = "nil" /\ rerr = "nil"
FlushDue(werr, rerr) == werr = "nil"

StreamIdle ==
    /\ fflush = FALSE
    /\ fisFlusher = FALSE
    /\ freads = <<>>
    /\ fwriteFail = 0
    /\ fpc = "done"
    /\ fpos = 0
    /\ fwrites = 0
    /\ ftrace = <<>>
    /\ ftotal = 0
    /\ frecord = [streaming |-> FALSE, respSize |-> 0, error |-> "", saved |-> FALSE]

StreamInit ==
    /\ fflush \in BOOLEAN
    /\ fisFlusher \in BOOLEAN
    /\ freads \in ReadScripts
    /\ fwriteFail \in 0 .. MaxReads
    /\ fpc = "read"
    /\ fpos = 0
    /\ fwrites = 0
    /\ ftrace = <<>>
    /\ ftotal = 0
    /\ frecord = [streaming |-> fflush, respSize |-> 0, error |-> "", saved |-> FALSE]

\* The return of copyWithOptionalFlush and the lines of ServeHTTP after it.
StreamReturn(total, err) ==
    /\ frecord' = [frecord EXCEPT !.respSize = total,
                                  !.error = IF err = "nil" THEN @ ELSE "forward response failed"]
    /\ fpc' = "final"

\* n, err := src.Read(buf); with n = 0 the error is looked at straight away.
StreamRead ==
    /\ fpc = "read"
    /\ LET r == freads[fpos + 1] IN
          /\ fpos' = fpos + 1
          /\ ftrace' = Append(ftrace, <<"read", r[1]>>)
          /\ IF r[1] > 0 THEN fpc' = "write" /\ frecord' = frecord
             ELSE IF r[2] = "nil" THEN fpc' = "read" /\ frecord' = frecord
             ELSE StreamReturn(ftotal, IF r[2] = "EOF" THEN "nil" ELSE r[2])
    /\ UNCHANGED <<fflush, fisFlusher, freads, fwriteFail, fwrites, ftotal>>
    /\ UNCHANGED notStreamVars

\* wn, werr := w.Write(buf[:n]); total += wn; Flush; then the read error.
StreamWrite ==
    /\ fpc = "write"
    /\ LET r    == freads[fpos]
           werr == IF fwrites + 1 = fwriteFail THEN "err" ELSE "nil"
           wn   == IF werr = "nil" THEN r[1] ELSE 0
           fl   == fflush /\ fisFlusher /\ FlushDue(werr, r[2])
       IN  /\ fwrites' = fwrites + 1
           /\ ftotal' = ftotal + wn
           /\ ftrace' = ftrace \o <<<<"write", wn, werr>>>> \o (IF fl THEN <<<<"flush">>>> ELSE <<>>)
           /\ IF werr /= "nil" THEN StreamReturn(ftotal + wn, werr)
              ELSE IF r[2] = "nil" THEN fpc' = "read" /\ frecord' = frecord
              ELSE StreamReturn(ftotal + wn, IF r[2] = "EOF" THEN "nil" ELSE r[2])
    /\ UNCHANGED <<fflush, fisFlusher, freads, fwriteFail, fpos>>
    /\ UNCHANGED notStreamVars

\* finalizeAndSaveLog: the record is saved with the size and the flag.
StreamFinalize ==
    /\ fpc = "final"
    /\ frecord' = [frecord EXCEPT !.saved = TRUE]
    /\ fpc' = "done"
    /\ UNCHANGED <<fflush, fisFlusher, freads, fwriteFail, fpos, fwrites, ftrace, ftotal>>
    /\ UNCHANGED notStreamVars

StreamNext ==
    \/ StreamRead
    \/ StreamWrite
    \/ StreamFinalize

(***************************************************************************)
(* Part XIII: mainHandler of Server.Start.  applyCORS sets the response    *)
(* headers, an OPTIONS request is answered with 200, and every other       *)
(* request goes to the control panel when Config.IsUIHost(r.Host) and to   *)
(* Proxy.ServeHTTP otherwise.                                              *)
(***************************************************************************)
Methods == {"GET", "HEAD", "POST", "PUT", "PATCH", "DELETE", "OPTIONS"}
MethodOptions == "OPTIONS"
StatusOK == 200

RouteHosts ==
    { <<"a">>, <<"B">>, <<"a", ":", "a">>, <<"b", ".", "a">>,
      <<"b", ".", "a", ":", "a">>, <<":">>, <<>> }
UIHostLists == { <<>>, << <<"a">> >>, << <<"b">>, <<"a">> >> }
Origins == {"", "o1", "o2"}
CORSLists == { <<>>, <<"*">>, <<"o1">>, <<"o1", "*">> }

\* Config.IsUIHost: the port is cut at the last colon (not in a host of one
\* byte), the host is normalized and compared with each configured host.
IsUIHost(hosts, host) ==
    LET bare == IF Len(host) - 1 > 0 THEN StripPort(host, Len(host)) ELSE host
    IN  \E i \in 1 .. Len(hosts) : ToLower(TrimSpace(hosts[i])) = ToLower(TrimSpace(bare))

\* applyCORS: the value of Access-Control-Allow-Origin.
AllowOrigin(cors, origin) ==
    IF Len(cors) = 0 THEN ""
    ELSE IF Len(cors) = 1 /\ cors[1] = "*" THEN "*"
    ELSE IF origin /= "" /\ \E i \in 1 .. Len(cors) : cors[i] = origin THEN origin
    ELSE ""

RouteIdle ==
    /\ rmethod = "GET"
    /\ rhost = <<>>
    /\ rorigin = ""
    /\ ruiHosts = <<>>
    /\ rcors = <<>>
    /\ rtpc = "done"
    /\ rallow = ""
    /\ rhandler = "none"
    /\ rstatus = 0

RouteInit ==
    /\ rmethod \in Methods
    /\ rhost \in RouteHosts
    /\ rorigin \in Origins
    /\ ruiHosts \in UIHostLists
    /\ rcors \in CORSLists
    /\ rtpc = "cors"
    /\ rallow = ""
    /\ rhandler = "none"
    /\ rstatus = 0

RouteApplyCORS ==
    /\ rtpc = "cors"
    /\ rallow' = AllowOrigin(rcors, rorigin)
    /\ rtpc' = "method"
    /\ UNCHANGED <<rmethod, rhost, rorigin, ruiHosts, rcors, rhandler, rstatus>>
    /\ UNCHANGED notRouteVars

\* if r.Method == http.MethodOptions { w.WriteHeader(http.StatusOK); return }
RouteOptions ==
    /\ rtpc = "method"
    /\ IF rmethod = MethodOptions
       THEN rstatus' = StatusOK /\ rhandler' = "main" /\ rtpc' = "done"
       ELSE rstatus' = rstatus /\ rhandler' = rhandler /\ rtpc' = "route"
    /\ UNCHANGED <<rmethod, rhost, rorigin, ruiHosts, rcors, rallow>>
    /\ UNCHANGED notRouteVars

RouteDispatch ==
    /\ rtpc = "route"
    /\ rhandler' = IF IsUIHost(ruiHosts, rhost) THEN "ui" ELSE "proxy"
    /\ rtpc' = "done"
    /\ UNCHANGED <<rmethod, rhost, rorigin, ruiHosts, rcors, rallow, rstatus>>
    /\ UNCHANGED notRouteVars

RouteNext ==
    \/ RouteApplyCORS
    \/ RouteOptions
    \/ RouteDispatch

(***************************************************************************)
(* Part XIV: the configuration values one proxied request is served with.  *)
(* The Config object is shared and guarded by a reader-writer lock; each   *)
(* section is modelled by the version of its values (every update of a     *)
(* section gives it values it did not have before).  The admin API changes *)
(* the logging section (Config.Update) and the upstream table (AddUpstream,*)
(* RemoveUpstream); nothing changes the server section while the server    *)
(* runs.  ServerSnapshot, LoggingSnapshot and GetUpstream each take and    *)
(* release the lock, so an update can come between any two of them; the    *)
(* detaching stage takes its own LoggingSnapshot inside each SaveLog call, *)
(* which the worker of the async stage makes after the handler enqueued    *)
(* the record.                                                             *)
(***************************************************************************)
NoVersion == -1
Settings == {"domains", "caps", "sensitive", "upstream", "detachInitial", "detachFinal"}
SectionOf(setting) ==
    IF setting = "domains" THEN "server"
    ELSE IF setting = "upstream" THEN "upstreams"
    ELSE "logging"

ConfigIdle ==
    /\ kcfg = [server |-> 0, logging |-> 0, upstreams |-> 0]
    /\ kupdates = 0
    /\ kpc = "done"
    /\ kentry = kcfg
    /\ kused = [x \in Settings |-> NoVersion]
    /\ kqueue = <<>>

ConfigInit ==
    /\ kcfg = [server |-> 0, logging |-> 0, upstreams |-> 0]
    /\ kupdates = 0
    /\ kpc = "server"
    /\ kentry = kcfg
    /\ kused = [x \in Settings |-> NoVersion]
    /\ kqueue = <<>>

\* handleConfig, PUT: h.cfg.Update(func(c) { c.Logging.... = ... })
ConfigUpdateLogging ==
    /\ kupdates < MaxUpdates
    /\ kupdates' = kupdates + 1
    /\ kcfg' = [kcfg EXCEPT !.logging = @ + 1]
    /\ UNCHANGED <<kpc, kentry, kused, kqueue>>
    /\ UNCHANGED notConfigVars

\* Config.AddUpstream / Config.RemoveUpstream
ConfigUpdateUpstreams ==
    /\ kupdates < MaxUpdates
    /\ kupdates' = kupdates + 1
    /\ kcfg' = [kcfg EXCEPT !.upstreams = @ + 1]
    /\ UNCHANGED <<kpc, kentry, kused, kqueue>>
    /\ UNCHANGED notConfigVars

\* serverCfg := p.cfg.ServerSnapshot(): the first statement that reads the
\* Config; ExtractSubdomain uses serverCfg.ProxyDomains.
ConfigServerSnapshot ==
    /\ kpc = "server"
    /\ kentry' = kcfg
    /\ kused' = [kused EXCEPT !["domains"] = kcfg.server]
    /\ kpc' = "logging"
    /\ UNCHANGED <<kcfg, kupdates, kqueue>>
    /\ UNCHANGED notConfigVars

\* loggingCfg := p.cfg.LoggingSnapshot(): capture caps and sensitive headers.
ConfigLoggingSnapshot ==
    /\ kpc = "logging"
    /\ kused' = [kused EXCEPT !["caps"] = kcfg.logging, !["sensitive"] = kcfg.logging]
    /\ kpc' = "upstream"
    /\ UNCHANGED <<kcfg, kupdates, kentry, kqueue>>
    /\ UNCHANGED notConfigVars

\* upstream, ok := p.cfg.GetUpstream(subdomain): target and timeout.
ConfigGetUpstream ==
    /\ kpc = "upstream"
    /\ kused' = [kused EXCEPT !["upstream"] = kcfg.upstreams]
    /\ kpc' = "initial"
    /\ UNCHANGED <<kcfg, kupdates, kentry, kqueue>>
    /\ UNCHANGED notConfigVars

\* p.saveLogSnapshot(logEntry) and finalizeAndSaveLog: the record is enqueued.
ConfigSaveLog ==
    /\ kpc \in {"initial", "final"}
    /\ kqueue' = Append(kqueue, kpc)
    /\ kpc' = IF kpc = "initial" THEN "final" ELSE "done"
    /\ UNCHANGED <<kcfg, kupdates, kentry, kused>>
    /\ UNCHANGED notConfigVars

\* The worker calls DetachingRepository.SaveLog with the next record:
\* logging := r.cfg.LoggingSnapshot(); detachOver, previewBytes from it.
ConfigPersist ==
    /\ kqueue /= <<>>
    /\ kused' = [kused EXCEPT ![IF Head(kqueue) = "initial" THEN "detachInitial"
                                                            ELSE "detachFinal"] = kcfg.logging]
    /\ kqueue' = Tail(kqueue)
    /\ UNCHANGED <<kcfg, kupdates, kpc, kentry>>
    /\ UNCHANGED notConfigVars

ConfigNext ==
    \/ ConfigUpdateLogging
    \/ ConfigUpdateUpstreams
    \/ ConfigServerSnapshot
    \/ ConfigLoggingSnapshot
    \/ ConfigGetUpstream
    \/ ConfigSaveLog
    \/ ConfigPersist

(***************************************************************************)
(* Part XV: shutdown.  Server.Start serves until SIGINT/SIGTERM, then runs *)
(* http.Server.Shutdown with the shutdown timeout, waits for               *)
(* activeRequests to reach zero for at most the same timeout again, and    *)
(* returns.  The main without the tray calls Start itself and runs its     *)
(* deferred asyncRepo.Close() when Start has returned.  The main with the  *)
(* tray runs Start in a goroutine and blocks in systray.Run; its deferred  *)
(* Close runs when systray.Run returns, which the Quit item of the tray    *)
(* menu brings about, and nothing there calls the server.                  *)
(***************************************************************************)
Builds == {"tray", "headless"}
Requests == {1, 2}
NoTick == -1
MaxTick == 2 * GraceTicks + 1

ShutdownIdle ==
    /\ zbuild = "headless"
    /\ zreq = [r \in Requests |-> "returned"]
    /\ zactive = 0
    /\ zserver = "returned"
    /\ zelapsed = 0
    /\ zdeadline = 0
    /\ zmain = "closing"
    /\ zclosed = TRUE
    /\ zresult = [r \in Requests |-> "none"]
    /\ zsavedAt = [r \in Requests |-> NoTick]

ShutdownInit ==
    /\ zbuild \in Builds
    /\ zreq = [r \in Requests |-> "idle"]
    /\ zactive = 0
    /\ zserver = "serving"
    /\ zelapsed = 0
    /\ zdeadline = 0
    /\ zmain = "running"
    /\ zclosed = FALSE
    /\ zresult = [r \in Requests |-> "none"]
    /\ zsavedAt = [r \in Requests |-> NoTick]

\* mainHandler is entered: activeRequests.Add(1).  The listener accepts
\* until Shutdown closes it.
ShutdownArrive(r) ==
    /\ zserver = "serving"
    /\ zmain = "running"
    /\ zreq[r] = "idle"
    /\ zreq' = [zreq EXCEPT ![r] = "active"]
    /\ zactive' = zactive + 1
    /\ UNCHANGED <<zbuild, zserver, zelapsed, zdeadline, zmain, zclosed, zresult, zsavedAt>>
    /\ UNCHANGED notShutdownVars

\* finalizeAndSaveLog: AsyncRepository.SaveLog of the finalized record.
ShutdownFinalSave(r) ==
    /\ zreq[r] = "active"
    /\ zreq' = [zreq EXCEPT ![r] = "saved"]
    /\ zresult' = [zresult EXCEPT ![r] = IF zclosed THEN "ErrAsyncClosed" ELSE "nil"]
    /\ zsavedAt' = [zsavedAt EXCEPT ![r] = zelapsed]
    /\ UNCHANGED <<zbuild, zactive, zserver, zelapsed, zdeadline, zmain, zclosed>>
    /\ UNCHANGED notShutdownVars

\* defer activeRequests.Add(-1)
ShutdownHandlerReturn(r) ==
    /\ zreq[r] = "saved"
    /\ zreq' = [zreq EXCEPT ![r] = "returned"]
    /\ zactive' = zactive - 1
    /\ UNCHANGED <<zbuild, zserver, zelapsed, zdeadline, zmain, zclosed, zresult, zsavedAt>>
    /\ UNCHANGED notShutdownVars

\* case <-sigChan: s.server.Shutdown(ctx) starts, the listener is closed.
ShutdownSignal ==
    /\ zserver = "serving"
    /\ zserver' = "shutdown"
    /\ UNCHANGED <<zbuild, zreq, zactive, zelapsed, zdeadline, zmain, zclosed, zresult,
                   zsavedAt>>
    /\ UNCHANGED notShutdownVars

\* Time passes once the shutdown has begun.
ShutdownTick ==
    /\ zserver \in {"shutdown", "waiting"}
    /\ zelapsed < MaxTick
    /\ zelapsed' = zelapsed + 1
    /\ UNCHANGED <<zbuild, zreq, zactive, zserver, zdeadline, zmain, zclosed, zresult,
                   zsavedAt>>
    /\ UNCHANGED notShutdownVars

\* Shutdown returns: nil once no connection is serving a request, or the
\* context's error at the timeout (then s.server.Close()).
\* deadline := time.Now().Add(shutdownTimeout)
ShutdownReturns ==
    /\ zserver = "shutdown"
    /\ zactive = 0 \/ zelapsed >= GraceTicks
    /\ zdeadline' = zelapsed + GraceTicks
    /\ zserver' = "waiting"
    /\ UNCHANGED <<zbuild, zreq, zactive, zelapsed, zmain, zclosed, zresult, zsavedAt>>
    /\ UNCHANGED notShutdownVars

\* for activeRequests.Load() > 0 && time.Now().Before(deadline) { Sleep };
\* then Start returns.
ShutdownWaitEnds == zactive = 0 \/ zelapsed >= zdeadline

ShutdownStartReturns ==
    /\ zserver = "waiting"
    /\ ShutdownWaitEnds
    /\ zserver' = "returned"
    /\ UNCHANGED <<zbuild, zreq, zactive, zelapsed, zdeadline, zmain, zclosed, zresult,
                   zsavedAt>>
    /\ UNCHANGED notShutdownVars

\* main returns and its deferred asyncRepo.Close() sets a.closed: in the
\* main without the tray after srv.Start() has returned, in the main with
\* the tray after systray.Quit() (menu item Quit; Start returning an error).
ShutdownMainClose ==
    /\ zmain = "running"
    /\ IF zbuild = "headless" THEN zserver = "returned" ELSE TRUE
    /\ zmain' = "closing"
    /\ zclosed' = TRUE
    /\ UNCHANGED <<zbuild, zreq, zactive, zserver, zelapsed, zdeadline, zresult, zsavedAt>>
    /\ UNCHANGED notShutdownVars

ShutdownNext ==
    \/ \E r \in Requests : ShutdownArrive(r)
    \/ \E r \in Requests : ShutdownFinalSave(r)
    \/ \E r \in Requests : ShutdownHandlerReturn(r)
    \/ ShutdownSignal
    \/ ShutdownTick
    \/ ShutdownReturns
    \/ ShutdownStartReturns
    \/ ShutdownMainClose

(***************************************************************************)
(* Part XVI: what the caller of AsyncRepository.SaveLog and the worker     *)
(* side share.  A *RequestLog and a header map are objects with an         *)
(* address; the strings and numbers inside them are values.  The caller    *)
(* (the handler) holds the record at CallerLog and keeps writing to it     *)
(* between its SaveLog calls: fields, entries of its request header map,   *)
(* a new response header map.  The worker hands each queued record to      *)
(* inner.SaveLog (the detaching stage), which writes the body and its ref  *)
(* into the record it was given.                                           *)
(***************************************************************************)
Nil == 0
CallerLog == 1
StructAddrs == 1 .. (1 + MaxEnqueues)
MapAddrs == 1 .. (2 + 2 * MaxEnqueues)
NoStruct == [status |-> -1, body |-> "", ref |-> "", reqH |-> Nil, respH |-> Nil]
NoMap == {<<"free", 0>>}

\* Header maps with at most one key.
Entries == {{}, {<<"k", 1>>}, {<<"k", 2>>}}
FieldStatuses == {0, 200}

\* The first address of `addrs` nothing is stored at.
FreeAddr(heap, addrs, none) == CHOOSE a \in addrs : heap[a] = none /\ \A b \in addrs : b < a => heap[b] /= none

\* cloneStringMap(in): <<address of the result, the maps afterwards>>.
cloneStringMapShared(maps, in) == <<in, maps>>
cloneStringMap(maps, in) ==
    IF in = Nil \/ maps[in] = {} THEN <<Nil, maps>>
    ELSE LET out == FreeAddr(maps, MapAddrs, NoMap)
         IN  <<out, [maps EXCEPT ![out] = maps[in]]>>

\* cloneRequestLog(in): out := *in, with both header maps cloned;
\* <<address of the result, the structs afterwards, the maps afterwards>>.
cloneRequestLog(structs, maps, in) ==
    LET out  == FreeAddr(structs, StructAddrs, NoStruct)
        req  == cloneStringMap(maps, structs[in].reqH)
        resp == cloneStringMap(req[2], structs[in].respH)
    IN  <<out,
          [structs EXCEPT ![out] = [structs[in] EXCEPT !.reqH = req[1], !.respH = resp[1]]],
          resp[2]>>

\* The record at an address with its header maps read through.
EntriesAt(maps, a) == IF a = Nil THEN {} ELSE maps[a]
Deep(structs, maps, a) ==
    [status |-> structs[a].status, body |-> structs[a].body, ref |-> structs[a].ref,
     reqH |-> EntriesAt(maps, structs[a].reqH), respH |-> EntriesAt(maps, structs[a].respH)]

CloneIdle ==
    /\ qstructs = [a \in StructAddrs |-> NoStruct]
    /\ qmaps = [a \in MapAddrs |-> NoMap]
    /\ qchan = <<>>
    /\ qcalls = MaxEnqueues
    /\ qsnaps = <<>>
    /\ qentry = <<Nil, 0>>
    /\ qwpc = "recv"
    /\ qsent = 0
    /\ qdeliv = <<>>

\* logEntry := &storage.RequestLog{..., RequestHeaders: p.sanitizeHeaders(...)}
CloneInit ==
    /\ \E e \in Entries :
          /\ qstructs = [a \in StructAddrs |->
                            IF a = CallerLog
                               THEN [status |-> 0, body |-> "", ref |-> "", reqH |-> 1,
                                     respH |-> Nil]
                               ELSE NoStruct]
          /\ qmaps = [a \in MapAddrs |-> IF a = 1 THEN e ELSE NoMap]
    /\ qchan = <<>>
    /\ qcalls = 0
    /\ qsnaps = <<>>
    /\ qentry = <<Nil, 0>>
    /\ qwpc = "recv"
    /\ qsent = 0
    /\ qdeliv = <<>>

\* The caller writes fields of its record: logEntry.StatusCode = ...,
\* log.RequestBody = body (ServeHTTP, finalizeAndSaveLog).
CallerSetFields ==
    /\ qcalls < MaxEnqueues
    /\ \E s \in FieldStatuses :
          qstructs' = [qstructs EXCEPT ![CallerLog].status = s,
                                       ![CallerLog].body = IF s = 0 THEN "" ELSE "body"]
    /\ UNCHANGED <<qmaps, qchan, qcalls, qsnaps, qentry, qwpc, qsent, qdeliv>>
    /\ UNCHANGED notCloneVars

\* The caller writes an entry of the request header map its record holds.
CallerSetHeader ==
    /\ qcalls < MaxEnqueues
    /\ qstructs[CallerLog].reqH /= Nil
    /\ \E e \in Entries : qmaps' = [qmaps EXCEPT ![qstructs[CallerLog].reqH] = e]
    /\ UNCHANGED <<qstructs, qchan, qcalls, qsnaps, qentry, qwpc, qsent, qdeliv>>
    /\ UNCHANGED notCloneVars

\* logEntry.ResponseHeaders = p.headerToMap(resp.Header): a new map.
CallerNewMap ==
    /\ qcalls < MaxEnqueues
    /\ qstructs[CallerLog].respH = Nil
    /\ \E a \in MapAddrs :
          /\ qmaps[a] = NoMap
          /\ a = FreeAddr(qmaps, MapAddrs, NoMap)
          /\ \E e \in Entries : qmaps' = [qmaps EXCEPT ![a] = e]
          /\ qstructs' = [qstructs EXCEPT ![CallerLog].respH = a]
    /\ UNCHANGED <<qchan, qcalls, qsnaps, qentry, qwpc, qsent, qdeliv>>
    /\ UNCHANGED notCloneVars

\* AsyncRepository.SaveLog(log) on the open stage: c := cloneRequestLog(log);
\* select { case a.ch <- c: return nil; default: dropped, ErrAsyncQueueFull }
CloneSaveLog ==
    /\ qcalls < MaxEnqueues
    /\ qcalls' = qcalls + 1
    /\ LET c == cloneRequestLog(qstructs, qmaps, CallerLog) IN
          IF Len(qchan) < Capacity
             THEN /\ qstructs' = c[2]
                  /\ qmaps' = c[3]
                  /\ qchan' = Append(qchan, c[1])
                  /\ qsnaps' = Append(qsnaps, Deep(qstructs, qmaps, CallerLog))
             ELSE UNCHANGED <<qstructs, qmaps, qchan, qsnaps>>
    /\ UNCHANGED <<qentry, qwpc, qsent, qdeliv>>
    /\ UNCHANGED notCloneVars

\* for entry := range a.ch
CloneWorkerRecv ==
    /\ qwpc = "recv"
    /\ qchan /= <<>>
    /\ qentry' = <<Head(qchan), qsent + 1>>
    /\ qsent' = qsent + 1
    /\ qchan' = Tail(qchan)
    /\ qwpc' = "deliver"
    /\ UNCHANGED <<qstructs, qmaps, qcalls, qsnaps, qdeliv>>
    /\ UNCHANGED notCloneVars

\* a.inner.SaveLog(entry) is called.
CloneWorkerDeliver ==
    /\ qwpc = "deliver"
    /\ qdeliv' = Append(qdeliv, <<Deep(qstructs, qmaps, qentry[1]), qentry[2]>>)
    /\ qwpc' = "inner"
    /\ UNCHANGED <<qstructs, qmaps, qchan, qcalls, qsnaps, qentry, qsent>>
    /\ UNCHANGED notCloneVars

\* DetachingRepository.SaveLog writes into the record it was given
\* (logEntry.RequestBodyRef = ref; logEntry.RequestBody = preview) or
\* leaves it as it is; the record and its maps are then garbage.
CloneInnerSaveLog ==
    /\ qwpc = "inner"
    /\ \/ qstructs' = [qstructs EXCEPT ![qentry[1]].ref = "sha256", ![qentry[1]].body = "preview"]
       \/ qstructs' = qstructs
    /\ qentry' = <<Nil, 0>>
    /\ qwpc' = "recv"
    /\ UNCHANGED <<qmaps, qchan, qcalls, qsnaps, qsent, qdeliv>>
    /\ UNCHANGED notCloneVars

CloneNext ==
    \/ CallerSetFields
    \/ CallerSetHeader
    \/ CallerNewMap
    \/ CloneSaveLog
    \/ CloneWorkerRecv
    \/ CloneWorkerDeliver
    \/ CloneInnerSaveLog

(***************************************************************************)
(* Part XVII: the entry of Proxy.ServeHTTP: the subdomain of r.Host, the   *)
(* upstream of that name, url.Parse of its target, the initial record.     *)
(* The base domains are the default ones; c.Upstreams holds lower-case     *)
(* names (AddUpstream normalizes them) and targets nobody has parsed       *)
(* before (the API handler only refuses an empty target).                  *)
(***************************************************************************)
ResolveHosts == {h \in HostValues : Len(h) <= MaxResolveHostLen}
UpstreamNames == {<<"a">>, <<"b">>}
\* Targets: one url.Parse accepts, and two it refuses ("missing ']' in
\* host", "missing protocol scheme").
Targets == {"http://127.0.0.1:8080", "http://[::1", ":8080"}
NoTarget == "absent"
\* The X-PrismCat-Tag header of the request: absent, or a label.
TagValues == {"", "exp-1"}
UpstreamTables == [UpstreamNames -> Targets \cup {NoTarget}]
StatusBadRequest == 400

\* url.Parse(rawURL): the error, "nil" for none.
urlParse(rawURL) ==
    IF rawURL = "http://[::1" THEN "missing ']' in host"
    ELSE IF rawURL = ":8080" THEN "missing protocol scheme"
    ELSE "nil"

\* normalizeLower(s)
normalizeLower(str) == ToLower(TrimSpace(str))

\* Config.GetUpstream(subdomain): <<target, ok>>
GetUpstream(ups, subdomain) ==
    LET name == normalizeLower(subdomain)
    IN  IF name = <<>> THEN <<NoTarget, FALSE>>
        ELSE IF name \notin DOMAIN ups \/ ups[name] = NoTarget THEN <<NoTarget, FALSE>>
        ELSE <<ups[name], TRUE>>

ResolveIdle ==
    /\ vhost = <<>>
    /\ vups = [n \in UpstreamNames |-> NoTarget]
    /\ vpc = "idle"
    /\ vsub = <<>>
    /\ vtarget = NoTarget
    /\ vstatus = 0
    /\ vbody = ""
    /\ vsaved = <<>>
    /\ vtag = ""
    /\ vupTag = ""
    /\ vrows = <<>>

ResolveInit ==
    /\ vhost \in ResolveHosts
    /\ vups \in UpstreamTables
    /\ vpc = "extract"
    /\ vsub = <<>>
    /\ vtarget = NoTarget
    /\ vstatus = 0
    /\ vbody = ""
    /\ vsaved = <<>>
    /\ vtag \in TagValues
    /\ vupTag = ""
    /\ vrows = <<>>

\* http.Error(w, text, code); return
ResolveReject(text, code) ==
    /\ vstatus' = code
    /\ vbody' = text
    /\ vpc' = "done"
    /\ UNCHANGED vsaved

\* Lines 71-75.
ResolveExtract ==
    /\ vpc = "extract"
    /\ vsub' = ExtractSubdomain(vhost, <<>>)
    /\ IF vsub' = <<>>
          THEN ResolveReject("invalid host: missing subdomain", StatusBadRequest)
          ELSE /\ vpc' = "lookup"
               /\ UNCHANGED <<vstatus, vbody, vsaved>>
    /\ UNCHANGED <<vhost, vups, vtarget, vtag, vupTag, vrows>>
    /\ UNCHANGED notResolveVars

\* Lines 77-81.
ResolveGetUpstream ==
    /\ vpc = "lookup"
    /\ LET up == GetUpstream(vups, vsub)
       IN  IF ~up[2]
              THEN /\ ResolveReject("unknown upstream", StatusBadGateway)
                   /\ UNCHANGED vtarget
              ELSE /\ vtarget' = up[1]
                   /\ vpc' = "parse"
                   /\ UNCHANGED <<vstatus, vbody, vsaved>>
    /\ UNCHANGED <<vhost, vups, vsub, vtag, vupTag, vrows>>
    /\ UNCHANGED notResolveVars

\* Lines 83-87.
ResolveParse ==
    /\ vpc = "parse"
    /\ IF urlParse(vtarget) /= "nil"
          THEN ResolveReject("invalid upstream config", StatusInternalServerError)
          ELSE /\ vpc' = "initial"
               /\ UNCHANGED <<vstatus, vbody, vsaved>>
    /\ UNCHANGED <<vhost, vups, vsub, vtarget, vtag, vupTag, vrows>>
    /\ UNCHANGED notResolveVars

\* logEntry := &storage.RequestLog{ID, CreatedAt, Upstream, Method, Path,
\* Query, TargetURL, RequestHeaders}: the fields the literal leaves out hold
\* their zero values; nothing reads the X-PrismCat-Tag header.
InitialLogEntry(sub, target) ==
    [upstream |-> sub, targetURL |-> target, statusCode |-> 0, error |-> "", tag |-> ""]

\* SQLiteRepository.SaveLog followed by GetLog: the columns of the INSERT
\* are written, the columns of the SELECT are scanned into a new RequestLog,
\* and a field without a column holds its zero value.
StoredAndRead(e) ==
    [upstream |-> e.upstream, targetURL |-> e.targetURL, statusCode |-> e.statusCode,
     error |-> e.error, tag |-> ""]

\* Lines 92-103: the initial record and p.saveLogSnapshot(logEntry).
ResolveSaveInitial ==
    /\ vpc = "initial"
    /\ vsaved' = Append(vsaved, InitialLogEntry(vsub, vtarget))
    /\ vpc' = "forward"
    /\ UNCHANGED <<vhost, vups, vsub, vtarget, vstatus, vbody, vtag, vupTag, vrows>>
    /\ UNCHANGED notResolveVars

\* The worker hands the record to the durable table, where the API reads
\* it back (GetLog).
ResolveStore ==
    /\ Len(vrows) < Len(vsaved)
    /\ vrows' = Append(vrows, StoredAndRead(vsaved[Len(vrows) + 1]))
    /\ UNCHANGED <<vhost, vups, vpc, vsub, vtarget, vstatus, vbody, vsaved, vtag, vupTag>>
    /\ UNCHANGED notResolveVars

\* p.copyHeaders(upstreamReq.Header, r.Header): X-PrismCat-Tag is not a
\* hop-by-hop header and goes to the upstream request as it came; the
\* request goes on as in Part V.
ResolveForward ==
    /\ vpc = "forward"
    /\ vupTag' = vtag
    /\ vpc' = "sent"
    /\ UNCHANGED <<vhost, vups, vsub, vtarget, vstatus, vbody, vsaved, vtag, vrows>>
    /\ UNCHANGED notResolveVars

ResolveNext ==
    \/ ResolveExtract
    \/ ResolveGetUpstream
    \/ ResolveParse
    \/ ResolveSaveInitial
    \/ ResolveStore
    \/ ResolveForward

(***************************************************************************)
(* Part XVIII: the retention goroutine of main next to main's way out.     *)
(* main ends by its deferred calls, last registered first:                 *)
(* close(stopRetention), then asyncRepo.Close(), which ends in db.Close()  *)
(* of the durable table; then the process exits and takes the goroutine    *)
(* with it.  Nothing waits for the goroutine.  Time is left out: whether   *)
(* the purge and the GC are due is a pair of flags that a tick may raise.  *)
(* sql.DB.Close marks the database closed and closes its idle              *)
(* connections; a query in progress keeps its connection until it ends,    *)
(* and a query started afterwards fails at once.                           *)
(***************************************************************************)
StopIdle ==
    /\ ypc = "idle"
    /\ ymain = "idle"
    /\ ystop = FALSE
    /\ ytick = FALSE
    /\ yticks = 0
    /\ ydb = "open"
    /\ yrefused = FALSE
    /\ yretention = FALSE
    /\ ypurgeDue = FALSE
    /\ ygcDue = FALSE

\* var lastCleanup, lastBlobGC time.Time: both zero, both due.
StopInit ==
    /\ ypc = "top"
    /\ ymain = "running"
    /\ ystop = FALSE
    /\ ytick = FALSE
    /\ yticks = 0
    /\ ydb = "open"
    /\ yrefused = FALSE
    /\ yretention \in BOOLEAN
    /\ ypurgeDue = TRUE
    /\ ygcDue = TRUE

\* The goroutine runs until the process exits.
Alive == ymain /= "exit"

\* retentionDays := cfg.StorageSnapshot().RetentionDays; the test of the
\* purge; asyncRepo.DeleteLogsBefore(before) is called.
StopTop ==
    /\ Alive
    /\ ypc = "top"
    /\ \E days \in BOOLEAN :
          /\ yretention' = days
          /\ IF days /\ ypurgeDue
                THEN /\ ypc' = "purge"
                     /\ yrefused' = (ydb = "closed")
                ELSE /\ ypc' = "select"
                     /\ UNCHANGED yrefused
    /\ UNCHANGED <<ymain, ystop, ytick, yticks, ydb, ypurgeDue, ygcDue>>
    /\ UNCHANGED notStopVars

\* DeleteLogsBefore returns (its error is logged); blobStore is the
\* FileBlobStore; if the GC is due sqliteRepo.ListBlobRefs() is called,
\* else lastCleanup = time.Now().
StopPurgeReturns ==
    /\ Alive
    /\ ypc = "purge"
    /\ IF ygcDue
          THEN /\ ypc' = "list"
               /\ yrefused' = (ydb = "closed")
               /\ UNCHANGED ypurgeDue
          ELSE /\ ypc' = "select"
               /\ ypurgeDue' = FALSE
               /\ yrefused' = FALSE
    /\ UNCHANGED <<ymain, ystop, ytick, yticks, ydb, yretention, ygcDue>>
    /\ UNCHANGED notStopVars

\* ListBlobRefs returns: with an error (certain on the closed table) the
\* GC is skipped, else fsStore.GarbageCollect(ctx, refs, time.Hour) is
\* called.
StopListReturns ==
    /\ Alive
    /\ ypc = "list"
    /\ \E err \in BOOLEAN :
          /\ yrefused => err
          /\ IF err
                THEN /\ ypc' = "select"
                     /\ ypurgeDue' = FALSE
                     /\ ygcDue' = FALSE
                ELSE /\ ypc' = "gc"
                     /\ UNCHANGED <<ypurgeDue, ygcDue>>
    /\ yrefused' = FALSE
    /\ UNCHANGED <<ymain, ystop, ytick, yticks, ydb, yretention>>
    /\ UNCHANGED notStopVars

\* GarbageCollect returns: lastBlobGC = time.Now(); lastCleanup = time.Now().
StopGCReturns ==
    /\ Alive
    /\ ypc = "gc"
    /\ ypc' = "select"
    /\ ypurgeDue' = FALSE
    /\ ygcDue' = FALSE
    /\ UNCHANGED <<ymain, ystop, ytick, yticks, ydb, yrefused, yretention>>
    /\ UNCHANGED notStopVars

\* select { case <-ticker.C: case <-stopRetention: return }: of the cases
\* that are ready one is taken, either of them when both are.
Select(tick, stop) ==
    (IF tick THEN {"tick"} ELSE {}) \cup (IF stop THEN {"stop"} ELSE {})

StopSelect ==
    /\ Alive
    /\ ypc = "select"
    /\ \E case \in Select(ytick, ystop) :
          IF case = "tick"
             THEN /\ ytick' = FALSE
                  /\ ypc' = "top"
             ELSE /\ ypc' = "exited"
                  /\ UNCHANGED ytick
    /\ UNCHANGED <<ymain, ystop, yticks, ydb, yrefused, yretention, ypurgeDue, ygcDue>>
    /\ UNCHANGED notStopVars

\* The ticker sends on its channel of capacity one (a tick that finds it
\* full is dropped); by then the purge or the GC may have become due.
StopTicker ==
    /\ Alive
    /\ ypc /= "exited"
    /\ yticks < MaxStopTicks
    /\ yticks' = yticks + 1
    /\ ytick' = TRUE
    /\ \E p \in BOOLEAN, g \in BOOLEAN :
          /\ ypurgeDue' = (ypurgeDue \/ p)
          /\ ygcDue' = (ygcDue \/ g)
    /\ UNCHANGED <<ypc, ymain, ystop, ydb, yrefused, yretention>>
    /\ UNCHANGED notStopVars

\* main returns (systray.Run or srv.Start is over): defer close(stopRetention).
StopSignal ==
    /\ ymain = "running"
    /\ ystop' = TRUE
    /\ ymain' = "stopped"
    /\ UNCHANGED <<ypc, ytick, yticks, ydb, yrefused, yretention, ypurgeDue, ygcDue>>
    /\ UNCHANGED notStopVars

\* defer asyncRepo.Close(): the queue is drained, then a.inner.Close(),
\* DetachingRepository.Close, SQLiteRepository.Close, r.db.Close().
StopAsyncClose ==
    /\ ymain = "stopped"
    /\ ydb' = "closed"
    /\ ymain' = "closed"
    /\ UNCHANGED <<ypc, ystop, ytick, yticks, yrefused, yretention, ypurgeDue, ygcDue>>
    /\ UNCHANGED notStopVars

\* main is over and the process exits.
StopExit ==
    /\ ymain = "closed"
    /\ ymain' = "exit"
    /\ UNCHANGED <<ypc, ystop, ytick, yticks, ydb, yrefused, yretention, ypurgeDue, ygcDue>>
    /\ UNCHANGED notStopVars

StopNext ==
    \/ StopTop
    \/ StopPurgeReturns
    \/ StopListReturns
    \/ StopGCReturns
    \/ StopSelect
    \/ StopTicker
    \/ StopSignal
    \/ StopAsyncClose
    \/ StopExit

(***************************************************************************)
(* Part XIX: AsyncRepository.Close called by several goroutines, one after *)
(* another or at once, next to producers and the worker.  sync.Once.Do     *)
(* runs the function for the first caller, holds the callers that arrive   *)
(* while it runs until it has returned, and returns at once afterwards.    *)
(* The records are left out: the queue is the count of its elements.       *)
(***************************************************************************)
Closers == 1 .. NumClosers
Producers == 1 .. NumProducers

ClosersIdle ==
    /\ opc = [c \in Closers |-> "idle"]
    /\ oonce = "new"
    /\ oclosed = FALSE
    /\ oinflight = 0
    /\ oprod = [p \in Producers |-> "done"]
    /\ oqueue = 0
    /\ ochCloses = 0
    /\ oworker = "idle"
    /\ oinnerCloses = 0

ClosersInit ==
    /\ opc = [c \in Closers |-> "idle"]
    /\ oonce = "new"
    /\ oclosed = FALSE
    /\ oinflight = 0
    /\ oprod = [p \in Producers |-> "ready"]
    /\ oqueue = 0
    /\ ochCloses = 0
    /\ oworker = "running"
    /\ oinnerCloses = 0

\* Close() is called.
CloserCall(c) ==
    /\ opc[c] = "idle"
    /\ oworker /= "idle"
    /\ opc' = [opc EXCEPT ![c] = "once"]
    /\ UNCHANGED <<oonce, oclosed, oinflight, oprod, oqueue, ochCloses, oworker,
                   oinnerCloses>>
    /\ UNCHANGED notClosersVars

\* a.closeOnce.Do(func() {...}): the first caller enters the function
\* (Lock; a.closed.Store(true)); a caller that finds it running waits; a
\* caller that finds it done goes on to a.wg.Wait().
CloserOnce(c) ==
    /\ opc[c] = "once"
    /\ oonce /= "running"
    /\ IF oonce = "new"
          THEN /\ oonce' = "running"
               /\ oclosed' = TRUE
               /\ opc' = [opc EXCEPT ![c] = "cond"]
          ELSE /\ opc' = [opc EXCEPT ![c] = "wgwait"]
               /\ UNCHANGED <<oonce, oclosed>>
    /\ UNCHANGED <<oinflight, oprod, oqueue, ochCloses, oworker, oinnerCloses>>
    /\ UNCHANGED notClosersVars

\* for a.inflight > 0 { a.inflightCond.Wait() }; close(a.ch); Unlock; the
\* function returns and the Once is done.
CloserCond(c) ==
    /\ opc[c] = "cond"
    /\ oinflight = 0
    /\ ochCloses' = ochCloses + 1
    /\ oonce' = "done"
    /\ opc' = [opc EXCEPT ![c] = "wgwait"]
    /\ UNCHANGED <<oclosed, oinflight, oprod, oqueue, oworker, oinnerCloses>>
    /\ UNCHANGED notClosersVars

\* a.wg.Wait()
CloserWgWait(c) ==
    /\ opc[c] = "wgwait"
    /\ oworker = "done"
    /\ opc' = [opc EXCEPT ![c] = "innerclose"]
    /\ UNCHANGED <<oonce, oclosed, oinflight, oprod, oqueue, ochCloses, oworker,
                   oinnerCloses>>
    /\ UNCHANGED notClosersVars

\* return a.inner.Close()
CloserInner(c) ==
    /\ opc[c] = "innerclose"
    /\ oinnerCloses' = oinnerCloses + 1
    /\ opc' = [opc EXCEPT ![c] = "returned"]
    /\ UNCHANGED <<oonce, oclosed, oinflight, oprod, oqueue, ochCloses, oworker>>
    /\ UNCHANGED notClosersVars

\* SaveLog up to a.inflight++ (ErrAsyncClosed if the flag is set).
ProducerEnter(p) ==
    /\ oprod[p] = "ready"
    /\ IF oclosed
          THEN /\ oprod' = [oprod EXCEPT ![p] = "done"]
               /\ UNCHANGED oinflight
          ELSE /\ oprod' = [oprod EXCEPT ![p] = "send"]
               /\ oinflight' = oinflight + 1
    /\ UNCHANGED <<opc, oonce, oclosed, oqueue, ochCloses, oworker, oinnerCloses>>
    /\ UNCHANGED notClosersVars

\* The select and the deferred a.inflight--.
ProducerSend(p) ==
    /\ oprod[p] = "send"
    /\ oqueue' = IF oqueue < Capacity THEN oqueue + 1 ELSE oqueue
    /\ oinflight' = oinflight - 1
    /\ oprod' = [oprod EXCEPT ![p] = "done"]
    /\ UNCHANGED <<opc, oonce, oclosed, ochCloses, oworker, oinnerCloses>>
    /\ UNCHANGED notClosersVars

\* for entry := range a.ch { a.inner.SaveLog(entry) }; wg.Done()
ClosersWorker ==
    /\ oworker = "running"
    /\ IF oqueue > 0
          THEN /\ oqueue' = oqueue - 1
               /\ UNCHANGED oworker
          ELSE /\ ochCloses > 0
               /\ oworker' = "done"
               /\ UNCHANGED oqueue
    /\ UNCHANGED <<opc, oonce, oclosed, oinflight, oprod, ochCloses, oinnerCloses>>
    /\ UNCHANGED notClosersVars

ClosersNext ==
    \/ \E c \in Closers :
          \/ CloserCall(c)
          \/ CloserOnce(c)
          \/ CloserCond(c)
          \/ CloserWgWait(c)
          \/ CloserInner(c)
    \/ \E p \in Producers : ProducerEnter(p) \/ ProducerSend(p)
    \/ ClosersWorker

(***************************************************************************)
(* Part XX: Proxy.copyHeaders(dst, src), for the request (dst is the new   *)
(* upstream request's empty header) and for the response (dst is           *)
(* w.Header(), which may hold what the server's CORS step has set).  src   *)
(* comes from net/http's parser, so its keys are in canonical form.  Names *)
(* are written as in Part XI; a part of a Connection value is a name in a  *)
(* spelling of its own, possibly with blanks around it, or empty.          *)
(***************************************************************************)
CopiedNames ==
    {"keep-alive", "proxy-authenticate", "proxy-authorization", "proxy-connection", "te",
     "trailer", "transfer-encoding", "upgrade", "x-prismcat-tag", "content-type",
     "access-control-allow-origin"}
CopiedValues == {<<"v1">>, <<"v2", "v1">>}

\* The parts strings.Split(v, ",") yields for the Connection values used.
TokenSpellings == {"Canonical", "lower", "UPPER", "padded"}
EmptyToken == <<"", "">>
ConnectionValues ==
    { <<>>,
      << <<EmptyToken>> >>,
      << << <<"close", "lower">> >> >>,
      << << <<"x-prismcat-tag", "lower">> >> >>,
      << << <<"keep-alive", "Canonical">>, <<"content-type", "padded">> >> >>,
      << << <<"close", "lower">> >>, << <<"content-type", "UPPER">> >> >>,
      << << <<"close", "lower">>, EmptyToken, <<"x-prismcat-tag", "padded">> >>,
         << <<"te", "lower">> >> >> }

\* Headers of src: up to MaxHeaders names, each with its values.
SourceHeaders ==
    UNION {[ks -> CopiedValues] : ks \in {s \in SUBSET CopiedNames : Cardinality(s) <= MaxHeaders}}

\* dst at the call.
InitialDsts == {<<>>, [k \in {Canonical("access-control-allow-origin")} |-> <<"set by CORS">>]}

\* The key of a header of src, and src itself with its Connection header.
SrcKeys(src, conn) ==
    {Canonical(n) : n \in DOMAIN src} \cup (IF conn = <<>> THEN {} ELSE {Canonical("connection")})

\* strings.TrimSpace(token)
TrimToken(token) == IF token[2] = "padded" THEN <<token[1], "lower">> ELSE token

\* parseConnectionHeader(values): the set of the canonical forms of the
\* non-empty trimmed parts of all values.
parseConnectionFirstValue(values) ==
    IF Len(values) = 0 THEN {}
    ELSE {CanonicalMIMEHeaderKey(TrimToken(values[1][j])) :
             j \in {x \in 1 .. Len(values[1]) : TrimToken(values[1][x])[1] /= ""}}

parseConnectionValues(values) ==
    IF Len(values) = 0 THEN {}
    ELSE UNION {{CanonicalMIMEHeaderKey(TrimToken(values[i][j])) :
                    j \in {x \in 1 .. Len(values[i]) : TrimToken(values[i][x])[1] /= ""}} :
                i \in 1 .. Len(values)}

\* dst.Add(k, v) for every v of vv, in order.
AddAll(dst, k, vv) ==
    LET key == CanonicalMIMEHeaderKey(k)
    IN  IF key \in DOMAIN dst THEN [dst EXCEPT ![key] = @ \o vv]
        ELSE dst @@ [x \in {key} |-> vv]

HdrIdle ==
    /\ gsrc = <<>>
    /\ gconn = <<>>
    /\ gdst = <<>>
    /\ gdst0 = <<>>
    /\ gtodo = {}
    /\ hdpc = "idle"

HdrInit ==
    /\ gsrc \in SourceHeaders
    /\ gconn \in ConnectionValues
    /\ gdst0 \in InitialDsts
    /\ gdst = gdst0
    /\ gtodo = {}
    /\ hdpc = "call"

\* connectionTokens := parseConnectionHeader(src.Values("Connection"))
HdrCall ==
    /\ hdpc = "call"
    /\ gtodo' = SrcKeys(gsrc, gconn)
    /\ hdpc' = "loop"
    /\ UNCHANGED <<gsrc, gconn, gdst, gdst0>>
    /\ UNCHANGED notHdrVars

\* for k, vv := range src: one round, for a key in the order the map gives.
HdrVisit ==
    /\ hdpc = "loop"
    /\ \E k \in gtodo :
          /\ gtodo' = gtodo \ {k}
          /\ IF \/ isHopByHopHeader(k)
                \/ CanonicalMIMEHeaderKey(k) \in parseConnectionValues(gconn)
                THEN UNCHANGED gdst
                ELSE gdst' = AddAll(gdst, k, gsrc[k[1]])
    /\ UNCHANGED <<gsrc, gconn, gdst0, hdpc>>
    /\ UNCHANGED notHdrVars

\* The loop is over.
HdrReturn ==
    /\ hdpc = "loop"
    /\ gtodo = {}
    /\ hdpc' = "done"
    /\ UNCHANGED <<gsrc, gconn, gdst, gdst0, gtodo>>
    /\ UNCHANGED notHdrVars

HdrNext ==
    \/ HdrCall
    \/ HdrVisit
    \/ HdrReturn

vars == <<asyncVars, gcVars, callVars, laterVars>>

\* No part after Part III takes a step.
LaterIdle ==
    CaptureIdle /\ ServeIdle /\ PutIdle /\ TruncIdle /\ DetachIdle /\ SqlIdle /\
    HostIdle /\ MaskIdle /\ StreamIdle /\ RouteIdle /\ ConfigIdle /\ ShutdownIdle /\
    CloneIdle /\ ResolveIdle /\ StopIdle /\ ClosersIdle /\ HdrIdle

\* The async stage alone.
Init == AsyncInit /\ GCInit /\ retentionDays = 1 /\ CallIdle /\ LaterIdle

Next == AsyncNext

Spec == Init /\ [][Next]_vars

\* The worker-side stages and the retention loop.
InitGC == AsyncInit /\ GCInit /\ CallIdle /\ LaterIdle

SpecGC == InitGC /\ [][GCNext]_vars

\* One GarbageCollect call made at CallTime on an arbitrary directory.
InitCall == AsyncInit /\ GCInitAt(CallTime) /\ retentionDays = 0 /\ CallInit /\ LaterIdle

SpecCall == InitCall /\ [][CallNext]_vars

\* The parts I to III at rest.
EarlierIdle == AsyncInit /\ GCInit /\ retentionDays = 0 /\ CallIdle

\* One limitedCapture and the Write calls made on it.
InitCapture ==
    EarlierIdle /\ CaptureInit /\ ServeIdle /\ PutIdle /\ TruncIdle /\ DetachIdle /\
    SqlIdle /\ HostIdle /\ MaskIdle /\ StreamIdle /\ RouteIdle /\ ConfigIdle /\
    ShutdownIdle /\ CloneIdle /\ ResolveIdle /\ StopIdle /\ ClosersIdle /\ HdrIdle

SpecCapture == InitCapture /\ [][CaptureNext]_vars

\* One request served by Proxy.ServeHTTP.
InitServe ==
    EarlierIdle /\ CaptureIdle /\ ServeInit /\ PutIdle /\ TruncIdle /\ DetachIdle /\
    SqlIdle /\ HostIdle /\ MaskIdle /\ StreamIdle /\ RouteIdle /\ ConfigIdle /\
    ShutdownIdle /\ CloneIdle /\ ResolveIdle /\ StopIdle /\ ClosersIdle /\ HdrIdle

SpecServe == InitServe /\ [][ServeNext]_vars

\* Put and Get calls on an empty blob store.
InitPut ==
    EarlierIdle /\ CaptureIdle /\ ServeIdle /\ PutInit /\ TruncIdle /\ DetachIdle /\
    SqlIdle /\ HostIdle /\ MaskIdle /\ StreamIdle /\ RouteIdle /\ ConfigIdle /\
    ShutdownIdle /\ CloneIdle /\ ResolveIdle /\ StopIdle /\ ClosersIdle /\ HdrIdle

SpecPut == InitPut /\ [][PutNext]_vars

\* One truncateUTF8 call on a valid UTF-8 string.
InitTrunc ==
    EarlierIdle /\ CaptureIdle /\ ServeIdle /\ PutIdle /\ TruncInit /\ DetachIdle /\
    SqlIdle /\ HostIdle /\ MaskIdle /\ StreamIdle /\ RouteIdle /\ ConfigIdle /\
    ShutdownIdle /\ CloneIdle /\ ResolveIdle /\ StopIdle /\ ClosersIdle /\ HdrIdle

SpecTrunc == InitTrunc /\ [][TruncNext]_vars

\* One DetachingRepository.SaveLog call.
InitDetach ==
    EarlierIdle /\ CaptureIdle /\ ServeIdle /\ PutIdle /\ TruncIdle /\ DetachInit /\
    SqlIdle /\ HostIdle /\ MaskIdle /\ StreamIdle /\ RouteIdle /\ ConfigIdle /\
    ShutdownIdle /\ CloneIdle /\ ResolveIdle /\ StopIdle /\ ClosersIdle /\ HdrIdle

SpecDetach == InitDetach /\ [][DetachNext]_vars

\* SaveLog calls on an empty table.
InitSql ==
    EarlierIdle /\ CaptureIdle /\ ServeIdle /\ PutIdle /\ TruncIdle /\ DetachIdle /\
    SqlInit /\ HostIdle /\ MaskIdle /\ StreamIdle /\ RouteIdle /\ ConfigIdle /\
    ShutdownIdle /\ CloneIdle /\ ResolveIdle /\ StopIdle /\ ClosersIdle /\ HdrIdle

SpecSql == InitSql /\ [][SqlNext]_vars

\* One ExtractSubdomain call.
InitHost ==
    EarlierIdle /\ CaptureIdle /\ ServeIdle /\ PutIdle /\ TruncIdle /\ DetachIdle /\
    SqlIdle /\ HostInit /\ MaskIdle /\ StreamIdle /\ RouteIdle /\ ConfigIdle /\
    ShutdownIdle /\ CloneIdle /\ ResolveIdle /\ StopIdle /\ ClosersIdle /\ HdrIdle

SpecHost == InitHost /\ [][HostNext]_vars

\* The request headers of one request.
InitMask ==
    EarlierIdle /\ CaptureIdle /\ ServeIdle /\ PutIdle /\ TruncIdle /\ DetachIdle /\
    SqlIdle /\ HostIdle /\ MaskInit /\ StreamIdle /\ RouteIdle /\ ConfigIdle /\
    ShutdownIdle /\ CloneIdle /\ ResolveIdle /\ StopIdle /\ ClosersIdle /\ HdrIdle

SpecMask == InitMask /\ [][MaskNext]_vars

\* One copyWithOptionalFlush call.
InitStream ==
    EarlierIdle /\ CaptureIdle /\ ServeIdle /\ PutIdle /\ TruncIdle /\ DetachIdle /\
    SqlIdle /\ HostIdle /\ MaskIdle /\ StreamInit /\ RouteIdle /\ ConfigIdle /\
    ShutdownIdle /\ CloneIdle /\ ResolveIdle /\ StopIdle /\ ClosersIdle /\ HdrIdle

SpecStream == InitStream /\ [][StreamNext]_vars

\* One request through the main handler.
InitRoute ==
    EarlierIdle /\ CaptureIdle /\ ServeIdle /\ PutIdle /\ TruncIdle /\ DetachIdle /\
    SqlIdle /\ HostIdle /\ MaskIdle /\ StreamIdle /\ RouteInit /\ ConfigIdle /\
    ShutdownIdle /\ CloneIdle /\ ResolveIdle /\ StopIdle /\ ClosersIdle /\ HdrIdle

SpecRoute == InitRoute /\ [][RouteNext]_vars

\* One request and the updates of the configuration made meanwhile.
InitConfig ==
    EarlierIdle /\ CaptureIdle /\ ServeIdle /\ PutIdle /\ TruncIdle /\ DetachIdle /\
    SqlIdle /\ HostIdle /\ MaskIdle /\ StreamIdle /\ RouteIdle /\ ConfigInit /\
    ShutdownIdle /\ CloneIdle /\ ResolveIdle /\ StopIdle /\ ClosersIdle /\ HdrIdle

SpecConfig == InitConfig /\ [][ConfigNext]_vars

\* Requests, the signal, and the end of main.
InitShutdown ==
    EarlierIdle /\ CaptureIdle /\ ServeIdle /\ PutIdle /\ TruncIdle /\ DetachIdle /\
    SqlIdle /\ HostIdle /\ MaskIdle /\ StreamIdle /\ RouteIdle /\ ConfigIdle /\
    ShutdownInit /\ CloneIdle /\ ResolveIdle /\ StopIdle /\ ClosersIdle /\ HdrIdle

SpecShutdown == InitShutdown /\ [][ShutdownNext]_vars

\* One caller's record through SaveLog calls and the worker.
InitClone ==
    EarlierIdle /\ CaptureIdle /\ ServeIdle /\ PutIdle /\ TruncIdle /\ DetachIdle /\
    SqlIdle /\ HostIdle /\ MaskIdle /\ StreamIdle /\ RouteIdle /\ ConfigIdle /\
    ShutdownIdle /\ CloneInit /\ ResolveIdle /\ StopIdle /\ ClosersIdle /\ HdrIdle

SpecClone == InitClone /\ [][CloneNext]_vars

\* The entry of one ServeHTTP call on a proxy host.
InitResolve ==
    EarlierIdle /\ CaptureIdle /\ ServeIdle /\ PutIdle /\ TruncIdle /\ DetachIdle /\
    SqlIdle /\ HostIdle /\ MaskIdle /\ StreamIdle /\ RouteIdle /\ ConfigIdle /\
    ShutdownIdle /\ CloneIdle /\ ResolveInit /\ StopIdle /\ ClosersIdle /\ HdrIdle

SpecResolve == InitResolve /\ [][ResolveNext]_vars

\* The retention goroutine and the end of main.
InitStop ==
    EarlierIdle /\ CaptureIdle /\ ServeIdle /\ PutIdle /\ TruncIdle /\ DetachIdle /\
    SqlIdle /\ HostIdle /\ MaskIdle /\ StreamIdle /\ RouteIdle /\ ConfigIdle /\
    ShutdownIdle /\ CloneIdle /\ ResolveIdle /\ StopInit /\ ClosersIdle /\ HdrIdle

SpecStop == InitStop /\ [][StopNext]_vars

\* Several Close calls next to producers and the worker.
InitClosers ==
    EarlierIdle /\ CaptureIdle /\ ServeIdle /\ PutIdle /\ TruncIdle /\ DetachIdle /\
    SqlIdle /\ HostIdle /\ MaskIdle /\ StreamIdle /\ RouteIdle /\ ConfigIdle /\
    ShutdownIdle /\ CloneIdle /\ ResolveIdle /\ StopIdle /\ ClosersInit /\ HdrIdle

SpecClosers == InitClosers /\ [][ClosersNext]_vars

\* One copyHeaders call on a parsed message.
InitHdr ==
    EarlierIdle /\ CaptureIdle /\ ServeIdle /\ PutIdle /\ TruncIdle /\ DetachIdle /\
    SqlIdle /\ HostIdle /\ MaskIdle /\ StreamIdle /\ RouteIdle /\ ConfigIdle /\
    ShutdownIdle /\ CloneIdle /\ ResolveIdle /\ StopIdle /\ ClosersIdle /\ HdrInit

SpecHdr == InitHdr /\ [][HdrNext]_vars

\* Handlers are scheduled fairly; nothing is assumed of the worker, of the
\* inner sink or of the goroutine calling Close.
SpecHandlersFair == Spec /\ \A h \in Handlers : WF_vars(HandlerStep(h))

\* The worker goroutine keeps running: it is never suspended for ever while
\* it has a record to receive or to save.  Nothing is assumed of the rest.
SpecWorkerFair == Spec /\ WF_vars(WorkerStep)

\* Every goroutine is scheduled fairly: the handlers, the worker (each
\* inner.SaveLog call returns) and the goroutine that calls Close.
SpecFair ==
    Spec /\ (\A h \in Handlers : WF_vars(HandlerStep(h))) /\ WF_vars(WorkerStep)
         /\ WF_vars(CloseStep)

(***************************************************************************)
(* Properties of the async stage.                                          *)
(***************************************************************************)
Accepted == {r \in Records : result[r] = "nil"}
Dropped == {r \in Records : result[r] = "ErrAsyncQueueFull"}
Rejected == {r \in Records : result[r] = "ErrAsyncClosed"}
Finished == {r \in Records : result[r] /= "none" /\ Rec(r[1]) /= r}
Queued(r) == Cardinality({i \in 1 .. Len(ch) : ch[i] = r})
Held(r) == IF entry = r THEN 1 ELSE 0
WorkerIdleSoFar == entry = NoEntry /\ wpc = "recv" /\ \A r \in Records : innerCalls[r] = 0
MinOf(a, b) == IF a < b THEN a ELSE b
NumCalls == 2 * NumHandlers

\* C1: under every interleaving of SaveLog calls with Close no send is
\* attempted on the closed channel; a record whose SaveLog returned nil is at
\* every moment either queued, held by the worker, or handed to inner.SaveLog
\* exactly once (and handed over once the worker has returned); a record whose
\* SaveLog returned ErrAsyncQueueFull or ErrAsyncClosed is never handed over.
C1_NoPanicExactlyOnce ==
    /\ ~panicked
    /\ \A r \in Records :
          /\ Queued(r) + Held(r) + innerCalls[r] = IF r \in Accepted THEN 1 ELSE 0
          /\ wpc = "done" => innerCalls[r] = IF r \in Accepted THEN 1 ELSE 0

\* Close had to wait for an in-flight enqueue, one record was accepted and
\* delivered and another call was rejected as closed.
C1_Witness ==
    /\ cpc = "woken"
    /\ \E r \in Accepted : innerCalls[r] = 1
    /\ Rejected /= {}

\* C2: at the moment Close returns the inner sink has received each record
\* whose SaveLog returned nil exactly once and no other record.
C2_CloseDrains ==
    cpc = "returned" =>
        /\ \A r \in Records : innerCalls[r] = IF r \in Accepted THEN 1 ELSE 0
        /\ inflight = 0
        /\ \A h \in Handlers : hpc[h] \notin {"send", "defer"}

\* Close was invoked on a non-empty queue and returned with two records delivered.
C2_Witness ==
    /\ cpc = "returned"
    /\ chLenAtClose >= 1
    /\ Cardinality({r \in Records : innerCalls[r] = 1}) >= 2

\* C6: the drop counter equals the number of calls that returned
\* ErrAsyncQueueFull and never decreases; while the worker has taken nothing
\* at most Capacity calls return nil, and once all NumCalls calls are done
\* (Close not invoked) min(NumCalls, Capacity) returned nil, the others
\* ErrAsyncQueueFull, and the counter is NumCalls - min(NumCalls, Capacity).
C6_DropInvariant ==
    /\ dropped = Cardinality(Dropped)
    /\ WorkerIdleSoFar => Cardinality(Accepted) <= Capacity
    /\ (WorkerIdleSoFar /\ ~closed /\ Cardinality(Finished) = NumCalls) =>
          /\ Cardinality(Accepted) = MinOf(NumCalls, Capacity)
          /\ Accepted \cup Dropped = Records
          /\ dropped = NumCalls - MinOf(NumCalls, Capacity)

C6_DropAccounting == []C6_DropInvariant /\ [][dropped' >= dropped]_vars

\* More calls than the capacity were issued with the worker taking nothing.
C6_Witness ==
    /\ WorkerIdleSoFar
    /\ ~closed
    /\ Cardinality(Finished) = NumCalls
    /\ NumCalls > Capacity
    /\ dropped = NumCalls - Capacity

\* C7: a SaveLog call that has started returns, whatever the worker, the
\* inner sink and Close do or fail to do (only the handlers are scheduled).
C7_SaveLogReturns == \A h \in Handlers : (hpc[h] /= "ready") ~> (hpc[h] = "ready")

\* Queue full, worker inside inner.SaveLog, Close waiting for in-flight
\* enqueues, and a call has just taken the default branch.
C7_Witness ==
    /\ cpc = "waiting"
    /\ wpc = "save"
    /\ Len(ch) = Capacity
    /\ \E h \in Handlers : hpc[h] = "defer" /\ result[Rec(h)] = "ErrAsyncQueueFull"

\* C8: a SaveLog call that starts once the closed flag is set returns
\* ErrAsyncClosed in its first step, enqueues nothing and leaves the drop
\* counter unchanged; its record never reaches the queue or the inner sink.
C8_StartedClosedInv ==
    \A r \in Records : startedClosed[r] =>
        /\ result[r] = "ErrAsyncClosed"
        /\ Queued(r) + Held(r) + innerCalls[r] = 0

C8_ClosedRejects ==
    /\ []C8_StartedClosedInv
    /\ [][\A h \in Handlers :
             (closed /\ hpc[h] = "ready" /\ HandlerStep(h)) =>
                 /\ result'[Rec(h)] = "ErrAsyncClosed"
                 /\ ch' = ch
                 /\ dropped' = dropped]_vars

C8_Witness ==
    \E r \in Records : startedClosed[r] /\ result[r] = "ErrAsyncClosed" /\ cpc = "waiting"

\* For one id: both records were accepted.
BothAccepted(h) == <<h, "initial">> \in Accepted /\ <<h, "final">> \in Accepted
Drained == ch = <<>> /\ entry = NoEntry

\* The inner sink has the finalized record of h only after the initial one.
InitialFirst(h) ==
    BothAccepted(h) /\ innerCalls[<<h, "final">>] + Held(<<h, "final">>) > 0
        => innerCalls[<<h, "initial">>] > 0

C10_InnerClosedLast ==
    /\ (innerClosed \/ cpc \in {"innerclose", "returned"}) =>
          /\ chClosed
          /\ Drained
          /\ wpc = "done"
    /\ ~saveAfterClose

\* The inner sink was closed after a full queue had been drained into it.
C10_Witness ==
    /\ innerClosed
    /\ chLenAtClose = Capacity
    /\ Cardinality({r \in Records : innerCalls[r] = 1}) >= Capacity

(***************************************************************************)
(* Properties of the blob store under the retention loop.                  *)
(***************************************************************************)
\* C3: the GC never removes an object whose ref is in a row of the durable
\* table at the moment of the removal.
C3_GCKeepsLiveRefs == ~gcDeletedLive

\* C4: whenever a row with a non-empty request or response ref is saved, the
\* object of that ref exists in the blob store at that moment.
C4_RefExistsAtSave == ~savedDangling

(***************************************************************************)
(* Properties of one GarbageCollect call.                                  *)
(***************************************************************************)
\* Ref r is a well-formed sha256 ref of digest d, in any accepted spelling.
NamesDigest(r, d) == r[2] = d /\ r[1] \in {"canon", "ui", "bare"}
\* The object of digest d: the file Put writes for it.
ObjectOf(d) == <<"lower", d>>
LiveObjects == {ObjectOf(d) : d \in {x \in Digests : \E r \in liveRefs : NamesDigest(r, x)}}
AgeAtCall(n) == now - dirBefore[n]
\* What the call may and must leave behind, whatever the age rule is.
CallEffect ==
    /\ removed \subseteq Files(dirBefore)
    /\ removed \cap LiveObjects = {}
    /\ \A n \in removed : n[1] \notin {"tmp", "short", "nonhex"}
    /\ deleted = Cardinality(removed)
    /\ \A n \in Names : dir[n] = IF n \in removed THEN NoFile ELSE dirBefore[n]

Prefix(q, n) == SubSeq(q, 1, IF n < Len(q) THEN n ELSE Len(q))

\* C14: for a capture with cap C > 0, in every state reached by Write calls
\* (empty writes and writes after the buffer is full included):
\* len(Bytes()) <= C, Bytes() is the first min(Total(), C) bytes written,
\* Total() is the sum of the write lengths, and Truncated() holds exactly
\* when Total() > C.
C14_CaptureInvariant ==
    capture.max > 0 =>
        /\ Len(CapBytes(capture)) <= capture.max
        /\ CapBytes(capture) = Prefix(capWritten, capture.max)
        /\ Total(capture) = Len(capWritten)
        /\ Truncated(capture) <=> Total(capture) > capture.max

(***************************************************************************)
(* Properties of Proxy.ServeHTTP.                                          *)
(***************************************************************************)
ReadFromClient == SubSeq(script.reqBody, 1, Len(script.reqBody) - Len(reqLeft))
ReadFromUpstream == SubSeq(script.respBody, 1, Len(script.respBody) - Len(respLeft))
ClientLimit == IF script.copyFail = "write" THEN script.failAt ELSE Len(script.respBody)
Forwarded == script.do = "nil" /\ script.status >= 100
\* What a forwarder without capture and without records writes to the client
\* under the script: nothing if WriteHeader panics, the error reply if the
\* request failed, else the status and the body up to the first failure.
ExpectedStatus ==
    IF script.do = "create" THEN 500
    ELSE IF script.do \in DoErrors THEN 502
    ELSE IF script.status < 100 THEN 0
    ELSE script.status
ExpectedBody ==
    IF script.do /= "nil" THEN ErrorPage
    ELSE IF script.status < 100 THEN <<>>
    ELSE Prefix(script.respBody, MinOf(ReadLimit, ClientLimit))

C12_ResponseIgnoresPersistence ==
    spc = "done" =>
        /\ clientStatus = ExpectedStatus
        /\ clientBody = ExpectedBody
        /\ Len(saved) = IF script.do = "nil" /\ script.status < 100 THEN 1 ELSE 2

\* Both SaveLog calls failed, differently, and the response went through.
C12_Witness ==
    /\ spc = "done"
    /\ Forwarded
    /\ Len(saved) = 2
    /\ saved[1][3] = "ErrAsyncQueueFull"
    /\ saved[2][3] = "ErrAsyncClosed"
    /\ clientStatus = 200
    /\ clientBody = script.respBody
    /\ Len(clientBody) = MaxBody

FinalRecords == {saved[i][2] : i \in {k \in 1 .. Len(saved) : saved[k][1] = "final"}}

\* C13: when client.Do fails (dial failure, reset, timeout, client
\* disconnect) the client is sent 502 and one finalized record is emitted,
\* with status_code = 0 and a non-empty error; and every finalized record
\* with status_code = 0 has a non-empty error.
C13_FailureRecord ==
    /\ (spc = "done" /\ script.do \in DoErrors) =>
           /\ clientStatus = StatusBadGateway
           /\ Cardinality(FinalRecords) = 1
           /\ \A e \in FinalRecords : e.statusCode = 0 /\ e.error /= ""
    /\ \A e \in FinalRecords : e.statusCode = 0 => e.error /= ""

\* The per-request timeout fired while the request body was being sent.
C13_Witness ==
    /\ spc = "done"
    /\ script.do = "timeout"
    /\ Len(upSent) >= 1
    /\ Len(upSent) < Len(script.reqBody)
    /\ clientStatus = StatusBadGateway
    /\ \E e \in FinalRecords : e.statusCode = 0 /\ e.error /= "" /\ e.reqSize = Len(upSent)

(***************************************************************************)
(* Properties of FileBlobStore.Put and Get.                                *)
(***************************************************************************)
\* The object stored for the data of a Put call.
ObjectPathOf(data) == pathFor(<<"lower", Sum256(data)>>)

\* C15: the ref of every successful Put is "sha256:" followed by the lower
\* case hex digest of the data; two successful Puts return the same ref
\* exactly when their data are equal; at every moment after a successful
\* Put(b), Get of the returned ref (in any spelling parseBlobRef accepts
\* for it) yields b without error; and no step changes the bytes of an
\* object that is already stored.
C15_PutRefs ==
    /\ \A e \in putLog : e[2] = <<"canon", Sum256(e[1])>>
    /\ \A e1, e2 \in putLog : (e1[2] = e2[2]) <=> (e1[1] = e2[1])
    /\ \A e \in putLog : Get(files, e[2]) = <<e[2], "nil", e[1]>>
    /\ \A e \in putLog :
          lastGet[1] \in {e[2], <<"ui", e[2][2]>>, <<"bare", e[2][2]>>}
             => lastGet[2] \in {"nil", "ErrBlobNotFound"}
                /\ (lastGet[2] = "nil" => lastGet[3] = e[1])

C15_StoredBytesKept ==
    [][\A p \in FinalPaths : files[p] /= NoFile => files'[p] = files[p]]_vars

C15_ContentAddressed == []C15_PutRefs /\ C15_StoredBytesKept

\* Two different byte strings have been stored, one of them has been put
\* again while it was stored, and a Get has returned it.
C15_Witness ==
    /\ \A d \in Datas : files[ObjectPathOf(d)] = d
    /\ Cardinality(putLog) = NumDigests
    /\ putCalls = MaxPuts
    /\ \A w \in Writers : ppc[w] = "idle"
    /\ lastGet[2] = "nil"

(***************************************************************************)
(* Properties of truncateUTF8.                                             *)
(***************************************************************************)
IsPrefix(p, s) == Len(p) <= Len(s) /\ p = SubSeq(s, 1, Len(p))

\* The lengths of the prefixes of s that are valid UTF-8 and fit in n bytes.
FittingCuts(s, n) == {k \in 0 .. Len(s) : k <= n /\ Valid(SubSeq(s, 1, k))}

\* C18: for a valid UTF-8 string s and a cap n, the result of truncateUTF8
\* (in either form) is a prefix of s, is valid UTF-8, has at most n bytes
\* when n > 0, and no longer valid prefix of s fits in n bytes; it is
\* empty for n <= 0 and s itself when len(s) <= n.
C18_TruncateUTF8 ==
    tform \in {"detach_repo.go", "blob_fs.go"} =>
        /\ IsPrefix(tresult, ts)
        /\ Valid(tresult)
        /\ tmaxBytes <= 0 => tresult = <<>>
        /\ tmaxBytes > 0 =>
              /\ Len(tresult) <= tmaxBytes
              /\ \A k \in FittingCuts(ts, tmaxBytes) : k <= Len(tresult)
        /\ Len(ts) <= tmaxBytes => tresult = ts

\* Four 3-byte runes cut at 4 bytes by the form of blob_fs.go: the first
\* rune only.
C18_Witness ==
    /\ tform = "blob_fs.go"
    /\ ts = Encode(<<3, 3, 3, 3>>)
    /\ tmaxBytes = 4
    /\ tresult = RuneBytes(3)

\* The same call in the form of detach_repo.go.
C18_WitnessDetachRepo ==
    /\ tform = "detach_repo.go"
    /\ ts = Encode(<<3, 3, 3, 3>>)
    /\ tmaxBytes = 4
    /\ tresult = RuneBytes(3)

(***************************************************************************)
(* Properties of DetachingRepository.SaveLog.                              *)
(***************************************************************************)
\* The blobs.Put calls made for facet f.
PutsFor(f) == {i \in 1 .. Len(drputs) : drputs[i][1] = f}

\* The facet f of the record received is to be detached.
DetachDue(f) ==
    /\ drcfg.detachOver > 0
    /\ Len(drinput[f].body) > drcfg.detachOver
    /\ drinput[f].ref = NoRef

\* blobs.Put was called for f and returned a ref.
PutSucceeded(f) == \E i \in PutsFor(f) : drputs[i][3] = "nil"
PutFailed(f) == \E i \in PutsFor(f) : drputs[i][3] = "err"

PreviewCap == IF drcfg.previewBytes > 0 THEN drcfg.previewBytes ELSE 0

C17_PutFailureKeepsRecord ==
    /\ Len(drinner) = (IF drpc = "done" THEN 1 ELSE 0)
    /\ drpc = "done" =>
          /\ drinner[1] = drentry
          /\ \A f \in Facets :
                PutFailed(f) =>
                   /\ drinner[1][f].body = drinput[f].body
                   /\ drinner[1][f].ref = NoRef
          /\ (PutFailed("request") /\ DetachDue("response")) => PutsFor("response") /= {}
          /\ \A f \in Facets : (DetachDue(f) /\ ~PutFailed(f)) => PutSucceeded(f)

\* The Put of the request body failed, the Put of the response body
\* succeeded, and the record reached the inner sink.
C17_Witness ==
    /\ drpc = "done"
    /\ PutFailed("request")
    /\ PutSucceeded("response")
    /\ Len(drinner) = 1

(***************************************************************************)
(* Properties of SQLiteRepository.SaveLog.                                 *)
(***************************************************************************)
\* The rows that carry id, and the saves with that id that took effect.
RowsWithId(t, id) == {i \in 1 .. Len(t) : t[i]["id"] = id}
SavesWithId(id) == {k \in 1 .. Len(sqlSaves) : sqlSaves[k][1]["id"] = id /\ sqlSaves[k][2] = "nil"}
AllIds == GivenIds \cup {NewUUID(k) : k \in 1 .. MaxSaves}
LastOf(ks) == CHOOSE k \in ks : \A j \in ks : j <= k

\* What GetLog reads back from a row, as a record: Tag is not a column.
RecordOfRow(row) ==
    [f \in Fields |->
        IF f = "tag" THEN 0
        ELSE IF f \in HeaderColumns THEN row[f][2]
        ELSE row[f]]

C19_OneRowPerId ==
    \A id \in AllIds :
        /\ Cardinality(RowsWithId(table, id)) <= 1
        /\ (RowsWithId(table, id) /= {}) <=> (SavesWithId(id) /= {})
        /\ \A i \in RowsWithId(table, id) :
              RecordOfRow(table[i]) = sqlSaves[LastOf(SavesWithId(id))][1]

C19_OtherIdsKept ==
    [][\A id \in AllIds :
          id /= sqlSaves'[Len(sqlSaves')][1]["id"] =>
             {table'[i] : i \in RowsWithId(table', id)} = {table[i] : i \in RowsWithId(table, id)}]_vars

\* C19: after any sequence of SaveLog calls the table holds at most one row
\* per id, a row for exactly the ids that a successful save carried, and
\* that row reads back as the record of the last successful save with that
\* id, field by field; and a SaveLog call leaves the rows of every other
\* id as they were.
C19_UpsertById == []C19_OneRowPerId /\ C19_OtherIdsKept

\* A final record has been overwritten by an initial record of the same
\* id, whose response fields are empty, while another id holds a row.
C19_Witness ==
    /\ Len(sqlSaves) = MaxSaves
    /\ \A k \in 1 .. MaxSaves : sqlSaves[k][2] = "nil"
    /\ sqlSaves[1][1]["id"] = 1 /\ sqlSaves[1][1]["error"] = 1
    /\ sqlSaves[2][1]["id"] = 2
    /\ sqlSaves[MaxSaves][1]["id"] = 1 /\ sqlSaves[MaxSaves][1]["error"] = 0
    /\ Len(table) = 2
    /\ table[1]["error"] = 0

(***************************************************************************)
(* Properties of ExtractSubdomain.                                         *)
(***************************************************************************)
\* The host without its port: what precedes the last colon, when no colon
\* and no closing bracket follows it.
PortCuts(h) == {i \in 1 .. Len(h) : h[i] = ":" /\ \A j \in (i + 1) .. Len(h) : h[j] \notin {":", "]"}}
HostName(h) == IF PortCuts(h) = {} THEN ToLower(h)
               ELSE ToLower(SubSeq(h, 1, (CHOOSE i \in PortCuts(h) : TRUE) - 1))

\* The base domains a list configures: each entry in lower case without the
\* blanks around it, blank entries left out, one leading dot dropped;
\* localhost when the list is empty.
BaseDomains(ds) ==
    IF Len(ds) = 0 THEN {Localhost}
    ELSE {TrimPrefix(n, <<".">>) :
             n \in {TrimSpace(ToLower(ds[i])) : i \in 1 .. Len(ds)} \ {<<>>}}

\* h is p.D for a base domain D and a single non-empty label p.
IsSubdomainOf(name, p, ds) ==
    /\ p /= <<>>
    /\ \A i \in 1 .. Len(p) : p[i] /= "."
    /\ \E D \in BaseDomains(ds) : name = p \o <<".">> \o D

Labels(name) == {SubSeq(name, 1, k) : k \in 0 .. Len(name)}

\* C20: ExtractSubdomain(h, domains) returns p whenever h, without its
\* port and in lower case, is p.D for a configured base domain D and a
\* single non-empty label p; and it returns the empty string whenever h is
\* of that form for no D and p (prefix of several labels, bare base domain,
\* no base domain matching).
C20_ExtractSubdomain ==
    xpc = "done" =>
        LET name == HostName(xhost)
            ps   == {p \in Labels(name) : IsSubdomainOf(name, p, xdomains)}
        IN  /\ \A p \in ps : xsub = p
            /\ ps = {} => xsub = <<>>

\* B.B:a with the base domain " b ": the port is cut, host and domain are
\* compared in lower case and the label is returned in lower case.
C20_Witness ==
    /\ xpc = "done"
    /\ xdomains = << <<" ", "b", " ">> >>
    /\ xhost = <<"B", ".", "B", ":", "a">>
    /\ xsub = <<"b">>

(***************************************************************************)
(* Properties of the request headers.                                      *)
(***************************************************************************)
\* The header under study matches a configured sensitive key.
IsSensitive == \E i \in 1 .. Len(msensitive) : mheader.name[1] = msensitive[i][1]

\* The header under study is one the proxy does not forward.
NotForwarded ==
    \/ mheader.name[1] \in HopByHop
    \/ mheader.connection = "names-header"

\* first-5 + "***" + last-3 of a value longer than 10 bytes, "***" otherwise.
Masked(v) ==
    IF Len(v) > 10
       THEN <<v[1], v[2], v[3], v[4], v[5], "*", "*", "*", v[Len(v) - 2], v[Len(v) - 1], v[Len(v)]>>
       ELSE <<"*", "*", "*">>

StoredIsMasked ==
    \A i \in 1 .. Len(mrecords) :
        /\ mheader.name \in DOMAIN mrecords[i]
        /\ mrecords[i][mheader.name] = Masked(mheader.values[1])

\* C21 as stated: the stored value of a sensitive header is the masked one
\* and never the original value, and the value sent to the upstream is the
\* inbound one.
C21_Original ==
    IsSensitive =>
        /\ StoredIsMasked
        /\ \A i \in 1 .. Len(mrecords) : mrecords[i][mheader.name] /= mheader.values[1]
        /\ mpc \in {"sent", "finalize", "done"} /\ mupstream /= NoHeaders
              => mupstream[mheader.name] = mheader.values
        /\ mpc = "sent" => mupstream /= NoHeaders

\* C21: in every record emitted (initial and finalized) the value of a
\* sensitive request header is first-5 + "***" + last-3 when it is longer
\* than 10 bytes and "***" otherwise, which differs from the inbound value
\* unless the inbound value already has that form; the upstream request
\* carries the header with all its inbound values unchanged, unless the
\* header is hop-by-hop or named in Connection, and then it is not sent.
C21_MaskedInRecords ==
    IsSensitive =>
        /\ StoredIsMasked
        /\ \A i \in 1 .. Len(mrecords) :
              mheader.values[1] /= Masked(mheader.values[1])
                 => mrecords[i][mheader.name] /= mheader.values[1]
        /\ mpc \in {"sent", "finalize", "done"} /\ mupstream /= NoHeaders
              => /\ ~NotForwarded
                 /\ mupstream[mheader.name] = mheader.values
        /\ mpc = "sent" => (mupstream = NoHeaders <=> NotForwarded)

\* Authorization with a value of 12 bytes, configured as AUTHORIZATION:
\* both records hold abcde***jkl and the upstream request holds the value.
C21_Witness ==
    /\ mpc = "done"
    /\ mheader.name = Canonical("authorization")
    /\ mheader.values = <<Plain(12)>>
    /\ msensitive = << <<"authorization", "AUTHORIZATION">> >>
    /\ Len(mrecords) = 2
    /\ mrecords[2][mheader.name] = <<"a", "b", "c", "d", "e", "*", "*", "*", "j", "k", "l">>
    /\ mupstream /= NoHeaders
    /\ mupstream[mheader.name] = <<Plain(12)>>

(***************************************************************************)
(* Properties of copyWithOptionalFlush.                                    *)
(***************************************************************************)
CallsOf(kind) == {i \in 1 .. Len(ftrace) : ftrace[i][1] = kind}
NonEmptyReads == {i \in CallsOf("read") : ftrace[i][2] > 0}
GoodWrites == {i \in CallsOf("write") : ftrace[i][3] = "nil"}
RECURSIVE BytesRead(_)
BytesRead(i) == IF i = 0 THEN 0
                ELSE BytesRead(i - 1) + (IF ftrace[i][1] = "read" THEN ftrace[i][2] ELSE 0)

\* C22: with streaming detected and a client writer that can flush, every
\* non-empty chunk read is next written to the client, every write that
\* succeeds is next followed by one Flush, and a Flush happens nowhere
\* else, so no read is made between a chunk and its Flush and the flushes
\* number the chunks written; when no write has failed the finalized record
\* has streaming = true and response_body_size equal to the bytes read.
C22_FlushPerChunk ==
    (fflush /\ fisFlusher) =>
        /\ \A i \in NonEmptyReads :
              i < Len(ftrace) => ftrace[i + 1][1] = "write"
        /\ \A i \in GoodWrites :
              ftrace[i - 1][1] = "read" /\ ftrace[i][2] = ftrace[i - 1][2]
        /\ fpc /= "write" =>
              \A i \in GoodWrites : i < Len(ftrace) /\ ftrace[i + 1][1] = "flush"
        /\ \A i \in CallsOf("flush") : (i - 1) \in GoodWrites
        /\ fpc /= "write" => Cardinality(CallsOf("flush")) = Cardinality(GoodWrites)
        /\ (frecord.saved /\ Cardinality(GoodWrites) = Cardinality(CallsOf("write"))) =>
              /\ Cardinality(CallsOf("flush")) = Cardinality(NonEmptyReads)
              /\ frecord.streaming
              /\ frecord.respSize = BytesRead(Len(ftrace))

\* Three non-empty chunks, the last one delivered together with io.EOF:
\* three flushes, and the record saved with the size of the three chunks.
C22_Witness ==
    /\ fflush /\ fisFlusher
    /\ frecord.saved
    /\ Cardinality(NonEmptyReads) = MaxReads
    /\ Cardinality(CallsOf("flush")) = MaxReads
    /\ freads[MaxReads] = <<1, "EOF">>
    /\ frecord.streaming
    /\ frecord.respSize = BytesRead(Len(ftrace))
    /\ frecord.error = ""

(***************************************************************************)
(* Properties of the main handler.                                         *)
(***************************************************************************)
\* C23: a request whose host is not a UI host is handed to the proxy
\* whatever its method, OPTIONS included.
C23_MethodNeverDecides ==
    (rtpc = "done" /\ rhandler /= "none" /\ ~IsUIHost(ruiHosts, rhost)) => rhandler = "proxy"


(***************************************************************************)
(* The records one request emits.                                          *)
(***************************************************************************)
SavesOfKind(kind) == {i \in 1 .. Len(saved) : saved[i][1] = kind}

\* C24: a request that got past upstream resolution emits the initial record
\* (status_code 0, empty error) first and, by the time the handler is done,
\* exactly one finalized record after it, both with the id of the request;
\* at no time are there two initial or two finalized records.
C24_TwoSaveCalls ==
    /\ Cardinality(SavesOfKind("initial")) <= 1
    /\ Cardinality(SavesOfKind("final")) <= 1
    /\ \A i \in 1 .. Len(saved) : saved[i][2].id = NewLogEntry.id
    /\ spc /= "initial" =>
          /\ Len(saved) >= 1
          /\ saved[1][1] = "initial"
          /\ saved[1][2].statusCode = 0
          /\ saved[1][2].error = ""
    /\ spc = "done" =>
          /\ Len(saved) = 2
          /\ saved[2][1] = "final"



C26_SnapshotAtEntry ==
    \A x \in Settings : kused[x] /= NoVersion => kused[x] = kentry[SectionOf(x)]

(***************************************************************************)
(* Order of shutdown.                                                      *)
(***************************************************************************)
\* C27: Close does not set the closed flag while a handler is active that
\* finishes within the grace period: the finalized record of every handler
\* that saves it within the shutdown timeout is not refused with
\* ErrAsyncClosed.
C27_CloseAfterHandlers ==
    \A r \in Requests :
        (zsavedAt[r] /= NoTick /\ zsavedAt[r] <= GraceTicks) => zresult[r] /= "ErrAsyncClosed"


(***************************************************************************)
(* Concurrent Put calls.                                                   *)
(***************************************************************************)
PutErrorOnlyOnFault == \A w \in Writers : pres[w] = "err" => pfault[w]
ReturnedObjectsWhole == \A e \in putLog : files[ObjectPathOf(e[1])] = e[1]
FinalPathsWhole ==
    \A p \in FinalPaths :
        files[p] /= Partial /\ (files[p] /= NoFile => ObjectPathOf(files[p]) = p)

\* C28: however concurrent Put calls interleave, a Put returns an error
\* only when an OS call of its own failed (puts of the same content both
\* return the ref), the object under the final path of a ref that was
\* returned holds exactly the content put, a final path holds no content
\* but its own, and a final path never holds a partly written object.
C28_ConcurrentPuts ==
    /\ PutErrorOnlyOnFault
    /\ ReturnedObjectsWhole
    /\ FinalPathsWhole


(***************************************************************************)
(* The worker of the async stage.                                          *)
(***************************************************************************)
\* C29: one worker: it holds a record exactly while it is inside
\* inner.SaveLog, so at most one such call is in progress; the queue
\* changes only by a send that appends one record at its tail or by the
\* worker, holding no record, taking the record at its head; and every
\* inner.SaveLog call is made with the record the worker holds, before it
\* takes the next.  Records therefore reach the inner sink in the order
\* in which their sends succeeded, whatever the producers do.
C29_SingleWorkerFIFO ==
    /\ [](wpc = "save" <=> entry /= NoEntry)
    /\ [][ch' /= ch =>
            \/ /\ \E r \in Records : ch' = Append(ch, r) /\ Queued(r) = 0
               /\ entry' = entry
            \/ /\ ch /= <<>>
               /\ ch' = Tail(ch)
               /\ entry = NoEntry
               /\ entry' = Head(ch)]_vars
    /\ [][innerCalls' /= innerCalls =>
            /\ entry /= NoEntry
            /\ innerCalls' = [innerCalls EXCEPT ![entry] = @ + 1]
            /\ entry' = NoEntry]_vars

\* The worker is saving its second record or a later one while the queue,
\* filled by both producers, is full.
C29_Witness ==
    /\ wpc = "save"
    /\ \E r \in Records : innerCalls[r] = 1
    /\ Len(ch) = Capacity
    /\ \E i, j \in 1 .. Len(ch) : ch[i][1] /= ch[j][1]

(***************************************************************************)
(* The clone made on enqueue.                                              *)
(***************************************************************************)
CallerRecord == Deep(qstructs, qmaps, CallerLog)
WorkerSide == qwpc' /= qwpc \/ qentry' /= qentry

\* C30: every record inner.SaveLog is called with has the fields and the
\* header entries the caller's record had when its SaveLog call was made,
\* whatever the caller wrote to its record or its header maps since; a step
\* of the worker side leaves the caller's record and header entries as they
\* are; and a step of the caller leaves every queued record as it is.
C30_CloneOnEnqueue ==
    /\ [](\A i \in 1 .. Len(qdeliv) : qdeliv[i][1] = qsnaps[qdeliv[i][2]])
    /\ [][WorkerSide => CallerRecord' = CallerRecord]_vars
    /\ [][~WorkerSide =>
            \A i \in 1 .. Len(qchan) :
                i <= Len(qchan') =>
                    Deep(qstructs', qmaps', qchan'[i]) = Deep(qstructs, qmaps, qchan[i])]_vars

\* The finalized record was delivered with a header entry and a status the
\* caller has overwritten since its SaveLog call, and with a response header
\* map; the inner stage has written a preview and a ref into a queued record
\* and the caller's record has neither.
C30_Witness ==
    /\ Len(qdeliv) >= 2
    /\ \E i \in 1 .. Len(qdeliv) :
          /\ qdeliv[i][1].reqH /= {} /\ qdeliv[i][1].reqH /= CallerRecord.reqH
          /\ qdeliv[i][1].respH /= {}
          /\ qdeliv[i][1].status /= CallerRecord.status
    /\ \E a \in StructAddrs : qstructs[a].ref = "sha256"
    /\ CallerRecord.ref = ""


(***************************************************************************)
(* The sizes of the finalized record.                                      *)
(***************************************************************************)
\* C31: in every finalized record request_body_size is the request capture's
\* Total() and response_body_size is the response capture's Total(), on every
\* path, a copy that stops on a client write error or an upstream read error
\* included.
C31_SizesAreCaptureTotals ==
    \A i \in SavesOfKind("final") :
        /\ saved[i][2].reqSize = Total(reqCapture)
        /\ saved[i][2].respSize = Total(respCapture)


(***************************************************************************)
(* A client write that fails in the middle of the response.                *)
(***************************************************************************)
\* The upstream's response is being copied and the client has taken fewer
\* bytes than were read from the upstream: a Write to the client has failed.
ClientWriteFailed ==
    /\ script.do = "nil"
    /\ script.status >= 100
    /\ spc \in {"copy", "final", "done"}
    /\ Len(clientBody) < Len(script.respBody) - Len(respLeft)

\* C32: when a write to the client fails in the middle of the response,
\* forwarding stops (nothing more is read from the upstream or written to the
\* client), and by the time the handler is done a finalized record has been
\* emitted with the upstream's status code, a non-empty error and the count
\* of bytes the client took.
C32_ClientWriteFailure ==
    /\ [](ClientWriteFailed => spc \in {"final", "done"})
    /\ [][ClientWriteFailed =>
             /\ respLeft' = respLeft
             /\ clientBody' = clientBody
             /\ clientStatus' = clientStatus
             /\ flushed' = flushed]_vars
    /\ []((ClientWriteFailed /\ spc = "done") =>
             /\ Cardinality(SavesOfKind("final")) = 1
             /\ \A i \in SavesOfKind("final") :
                   /\ saved[i][2].statusCode = script.status
                   /\ saved[i][2].error /= ""
                   /\ saved[i][2].respSize = Len(clientBody))

C32_Witness ==
    /\ ClientWriteFailed
    /\ spc = "done"
    /\ Len(clientBody) > 0
    /\ respLeft /= <<>>

(***************************************************************************)
(* Requests rejected before the initial record.                            *)
(***************************************************************************)
\* C33: every proxy-host request the forwarder rejects before dispatch
\* (missing subdomain answered 400, unknown upstream answered 502,
\* unparsable upstream target answered 500) leaves a log record with a
\* non-empty error.
C33_RejectedLeavesRecord ==
    (vpc = "done" /\ vstatus \in {StatusBadRequest, StatusBadGateway, StatusInternalServerError})
        => \E i \in 1 .. Len(vsaved) : vsaved[i].error /= ""


(***************************************************************************)
(* The cadence of the retention loop.                                      *)
(***************************************************************************)
\* A purge starts only with retention days > 0 and 6 hours or more after
\* the iteration of the purge before it.
PurgeCadence ==
    [][(rpc = "wait" /\ rpc' = "gc") =>
          /\ retentionDays > 0
          /\ lastCleanup = ZeroTime \/ now - lastCleanup >= CleanupPeriodHours]_vars

\* A GC pass starts 24 hours or more after the pass before it, with the
\* refs the durable table holds then (its purge is over) and minAge = 1h.
GCPassCadence ==
    [][(rpc = "gc" /\ rpc' = "walk") =>
          /\ lastBlobGC = ZeroTime \/ now - lastBlobGC >= BlobGCPeriodHours
          /\ gcRefs' = ListBlobRefs(logRows)
          /\ gcCutoff' = now - MinAgeHours]_vars

\* When the loop is at the top of an iteration and a GC pass is due, the
\* iteration is one that runs it.
GCDueIsRun ==
    [](rpc = "wait" /\ Due(lastBlobGC, BlobGCPeriodHours)
          => ENABLED (RetentionPurge \/ RetentionGC))

\* C34: in the retention loop two consecutive purges are at least 6 hours
\* apart and a purge happens only while retention days > 0; two consecutive
\* GC passes are at least 24 hours apart; each GC pass is given the live
\* refs read in that same pass after its purge, and minAge = 1h; and a GC
\* pass becomes due every 24 hours whether or not a purge is due.
C34_RetentionCadence == PurgeCadence /\ GCPassCadence /\ GCDueIsRun

(***************************************************************************)
(* The retention goroutine at shutdown.                                    *)
(***************************************************************************)
RetentionOps == {"purge", "list", "gc"}

\* C35: after the stop signal the retention loop exits without starting
\* another purge or GC pass, and no retention-loop operation
\* (DeleteLogsBefore, ListBlobRefs, GarbageCollect) is in progress or
\* started once the durable table has been closed at shutdown.
C35_RetentionStops ==
    /\ [][(ystop /\ ypc' \in RetentionOps) => ypc' = ypc]_vars
    /\ [](ydb = "closed" => ypc \notin RetentionOps)


(***************************************************************************)
(* Termination of AsyncRepository.Close.                                   *)
(***************************************************************************)
\* C36: Close terminates: with every goroutine scheduled fairly and each
\* inner.SaveLog call returning, a Close that has been invoked returns, also
\* while producers go on calling SaveLog; the in-flight counter is never
\* negative, it is zero from the moment the channel is closed and reaches
\* zero once the closed flag is set, and Close is never left waiting with
\* the counter at zero (it misses no wake-up).
C36_CloseTerminates ==
    /\ [](inflight >= 0)
    /\ [](cpc = "waiting" => inflight > 0)
    /\ [](chClosed => inflight = 0)
    /\ closed ~> (inflight = 0)
    /\ (cpc /= "idle") ~> (cpc = "returned")

\* Close has been woken by the last in-flight enqueue while another producer
\* is inside SaveLog and a third call is still to come.
C36_Witness ==
    /\ cpc = "woken"
    /\ inflight = 0
    /\ \E h \in Handlers : hpc[h] = "lock"
    /\ \E h \in Handlers : phase[h] = "initial"

(***************************************************************************)
(* Close called more than once.                                            *)
(***************************************************************************)
\* C37: when Close is called more than once, one call after another or at
\* once, the queue channel is closed exactly once (no double close), every
\* call returns only after the worker has returned, and inner.Close is
\* invoked exactly once overall.
C37_CloseIdempotent ==
    /\ ochCloses <= 1
    /\ oinnerCloses <= 1
    /\ \A c \in Closers : opc[c] = "returned" =>
          /\ ochCloses = 1
          /\ oworker = "done"
          /\ oinnerCloses = 1

(***************************************************************************)
(* The hop-by-hop filter.                                                  *)
(***************************************************************************)
\* The names the parts of the Connection values spell, in lower case.
NamedByConnection ==
    UNION {{gconn[i][j][1] : j \in 1 .. Len(gconn[i])} : i \in 1 .. Len(gconn)} \ {""}

HopByHopNames ==
    {"connection", "keep-alive", "proxy-authenticate", "proxy-authorization",
     "proxy-connection", "te", "trailer", "transfer-encoding", "upgrade"}

\* What dst held for a key when copyHeaders was called.
ValuesBefore(key) == IF key \in DOMAIN gdst0 THEN gdst0[key] ELSE <<>>

\* C38: a header of the source message is dropped by copyHeaders if and
\* only if its name is in the hop-by-hop set or is named by a token of the
\* source's Connection header, whatever the case of the token; every other
\* header is copied with all of its values in order.
C38_HopByHopFilter ==
    hdpc = "done" =>
        /\ \A n \in DOMAIN gsrc :
              IF n \in HopByHopNames \/ n \in NamedByConnection
                 THEN ValuesBefore(Canonical(n)) = <<>> => Canonical(n) \notin DOMAIN gdst
                 ELSE /\ Canonical(n) \in DOMAIN gdst
                      /\ gdst[Canonical(n)] = ValuesBefore(Canonical(n)) \o gsrc[n]
        /\ Canonical("connection") \notin DOMAIN gdst
        /\ \A key \in DOMAIN gdst : key \in DOMAIN gdst0 \/ key[1] \in DOMAIN gsrc
        /\ \A key \in DOMAIN gdst0 :
              key[1] \in HopByHopNames \cup NamedByConnection \/ key[1] \notin DOMAIN gsrc
                 => gdst[key] = gdst0[key]

\* The source has two Connection values; the second one names Content-Type
\* in upper case and Content-Type is dropped, while a header with two
\* values is copied.
C38_Witness ==
    /\ hdpc = "done"
    /\ Len(gconn) = 2
    /\ "content-type" \in DOMAIN gsrc
    /\ Canonical("content-type") \notin DOMAIN gdst
    /\ \E n \in DOMAIN gsrc : Canonical(n) \in DOMAIN gdst /\ gdst[Canonical(n)] = <<"v2", "v1">>


(***************************************************************************)
(* The X-PrismCat-Tag header.                                              *)
(***************************************************************************)
\* C39: when a proxied request carries the X-PrismCat-Tag header, its value
\* is stored in the tag field of the request's records and is readable
\* back from the durable table, and the header is forwarded to the upstream
\* unchanged.
C39_TagStoredAndForwarded ==
    vtag /= "" =>
        /\ \A i \in 1 .. Len(vsaved) : vsaved[i].tag = vtag
        /\ \A i \in 1 .. Len(vrows) : vrows[i].tag = vtag
        /\ vpc = "sent" => vupTag = vtag

====
